---------------------------- MODULE Spec2Model ----------------------------
(***************************************************************************)
(* A model of the megaorm-builder SQL statement builders: the Condition    *)
(* builder (src/src/sql/Condition.ts), the abstract Query                  *)
(* (src/src/sql/Query.ts) and the Select / Insert / Update / Delete        *)
(* builders.  SQL text is modelled by TLA+ strings, built character for    *)
(* character as the code builds it; bound values are tagged records.       *)
(***************************************************************************)
EXTENDS Integers, Sequences, FiniteSets, TLC

(***************************************************************************)
(* JavaScript values that reach the builders.  Every value is a record of  *)
(* one shape so that any two values can be compared.                       *)
(***************************************************************************)
Undefined == [t |-> "undefined", n |-> 0, s |-> ""]
Null      == [t |-> "null", n |-> 0, s |-> ""]
\* a plain object: its own keys with their values, in key order
Object(entries) == [t |-> "object", entries |-> entries]
Entry(key, value) == [key |-> key, value |-> value]
\* an array value
List(items) == [t |-> "array", items |-> items]
Str(s)    == [t |-> "string", n |-> 0, s |-> s]
Num(n)    == [t |-> "int", n |-> n, s |-> ""]
\* a number that is not an integer: n + 1/2
Frac(n)   == [t |-> "frac", n |-> n, s |-> ""]
\* new Ref(column), Condition.ts ref()
Ref(c)    == [t |-> "ref", n |-> 0, s |-> c]

\* the @megaorm/test predicates, as the code and its tests use them
isUndefined(v) == v = Undefined
isDefined(v)   == v # Undefined
isNull(v)      == v.t = "null"
isStr(v)       == v.t = "string"
isFullStr(v)   == v.t = "string" /\ v.s # ""
isEmptyStr(v)  == v.t = "string" /\ v.s = ""
isNum(v)       == v.t \in {"int", "frac"}
isInt(v)       == v.t = "int"
isRef(v)       == v.t = "ref"
isObj(v)       == v.t = "object"
isArr(v)       == v.t = "array"
isEmptyArr(v)  == isArr(v) /\ v.items = <<>>
isFullArr(v)   == isArr(v) /\ v.items # <<>>
isArrOfStr(v)  == isFullArr(v) /\ \A i \in 1..Len(v.items) : isStr(v.items[i])
isArrOfArr(v)  == isFullArr(v) /\ \A i \in 1..Len(v.items) : isArr(v.items[i])
isArrOfObj(v)  == isFullArr(v) /\ \A i \in 1..Len(v.items) : isObj(v.items[i])

(***************************************************************************)
(* String functions of the JavaScript runtime.                            *)
(***************************************************************************)
\* Array.prototype.join
RECURSIVE Join(_, _)
Join(seq, sep) ==
    IF seq = <<>> THEN ""
    ELSE IF Len(seq) = 1 THEN seq[1]
    ELSE seq[1] \o sep \o Join(Tail(seq), sep)

IsSpace(ch) == ch = " "

\* String.prototype.trim
RECURSIVE TrimStart(_)
TrimStart(s) ==
    IF Len(s) > 0 /\ IsSpace(SubSeq(s, 1, 1)) THEN TrimStart(SubSeq(s, 2, Len(s)))
    ELSE s

RECURSIVE TrimEnd(_)
TrimEnd(s) ==
    IF Len(s) > 0 /\ IsSpace(SubSeq(s, Len(s), Len(s)))
    THEN TrimEnd(SubSeq(s, 1, Len(s) - 1))
    ELSE s

Trim(s) == TrimEnd(TrimStart(s))

StartsWith(s, p) == Len(s) >= Len(p) /\ SubSeq(s, 1, Len(p)) = p
EndsWith(s, p)   == Len(s) >= Len(p) /\ SubSeq(s, Len(s) - Len(p) + 1, Len(s)) = p

\* s has p at position i
HasAt(s, i, p) == i + Len(p) - 1 <= Len(s) /\ SubSeq(s, i, i + Len(p) - 1) = p

\* the first position >= i of s that holds no white space (Len(s)+1 if none)
RECURSIVE SkipSpace(_, _)
SkipSpace(s, i) ==
    IF i <= Len(s) /\ IsSpace(SubSeq(s, i, i)) THEN SkipSpace(s, i + 1) ELSE i

\* RegExp /a\s*b/.test(s), for literal a and b that neither start nor end
\* with white space
TestSeq(s, a, b) ==
    \E i \in 1..Len(s) : HasAt(s, i, a) /\ HasAt(s, SkipSpace(s, i + Len(a)), b)

\* the number of occurrences of the character ch in s
RECURSIVE CountChar(_, _)
CountChar(s, ch) ==
    IF Len(s) = 0 THEN 0
    ELSE (IF SubSeq(s, 1, 1) = ch THEN 1 ELSE 0) + CountChar(SubSeq(s, 2, Len(s)), ch)

\* Array.prototype.flat on an array of arrays
RECURSIVE Flat(_)
Flat(rows) == IF rows = <<>> THEN <<>> ELSE rows[1] \o Flat(Tail(rows))

\* Array.prototype.filter
RECURSIVE FilterNotNull(_)
FilterNotNull(vs) ==
    IF vs = <<>> THEN <<>>
    ELSE (IF vs[1] = Null THEN <<>> ELSE <<vs[1]>>) \o FilterNotNull(Tail(vs))

(***************************************************************************)
(* Condition.ts: reference markers, dialect fragments, operators.          *)
(***************************************************************************)
\* Symbol(description)
Sym(d) == [t |-> "symbol", n |-> 0, s |-> d]

EQUAL         == Sym("=")
NOT_EQUAL     == Sym("!=")
LESS          == Sym("<")
LESS_OR_EQUAL == Sym("<=")
MORE          == Sym(">")
MORE_OR_EQUAL == Sym(">=")

invalidOperator(operator) ==
    operator \notin {EQUAL, NOT_EQUAL, LESS, LESS_OR_EQUAL, MORE, MORE_OR_EQUAL}

\* a function value: the calls it makes on its argument, in order
Func(ops) == [t |-> "function", ops |-> ops]
isFunc(f) == f.t = "function"

\* the driver kind of a MegaPoolConnection
isMySQL(driver)      == driver = "MySQL"
isPostgreSQL(driver) == driver = "PostgreSQL"

exDate(col) == "DATE(" \o col \o ")"

\* exTime that returns the MySQL fragment on every driver
exTime_anyDriver(col, con) == "TIME(" \o col \o ")"

exTime(col, con) ==
    IF isMySQL(con) THEN "TIME(" \o col \o ")"
    ELSE IF isPostgreSQL(con) THEN "TO_CHAR(" \o col \o ", 'HH24:MI:SS')"
    ELSE "STRFTIME('%H:%M:%S', " \o col \o ")"

exYear(col, con) ==
    IF isMySQL(con) THEN "YEAR(" \o col \o ")"
    ELSE IF isPostgreSQL(con) THEN "EXTRACT(YEAR FROM " \o col \o ")"
    ELSE "STRFTIME('%Y', " \o col \o ")"

exMonth(col, con) ==
    IF isMySQL(con) THEN "MONTH(" \o col \o ")"
    ELSE IF isPostgreSQL(con) THEN "EXTRACT(MONTH FROM " \o col \o ")"
    ELSE "STRFTIME('%m', " \o col \o ")"

exDay(col, con) ==
    IF isMySQL(con) THEN "DAY(" \o col \o ")"
    ELSE IF isPostgreSQL(con) THEN "EXTRACT(DAY FROM " \o col \o ")"
    ELSE "STRFTIME('%d', " \o col \o ")"

exHour(col, con) ==
    IF isMySQL(con) THEN "HOUR(" \o col \o ")"
    ELSE IF isPostgreSQL(con) THEN "EXTRACT(HOUR FROM " \o col \o ")"
    ELSE "STRFTIME('%H', " \o col \o ")"

exMinute(col, con) ==
    IF isMySQL(con) THEN "MINUTE(" \o col \o ")"
    ELSE IF isPostgreSQL(con) THEN "EXTRACT(MINUTE FROM " \o col \o ")"
    ELSE "STRFTIME('%M', " \o col \o ")"

exSecond(col, con) ==
    IF isMySQL(con) THEN "SECOND(" \o col \o ")"
    ELSE IF isPostgreSQL(con) THEN "EXTRACT(SECOND FROM " \o col \o ")"
    ELSE "STRFTIME('%S', " \o col \o ")"

(***************************************************************************)
(* class Condition.  A Condition object is a record of its private fields. *)
(* `bound` is a history field, not in the code: the values of the `?` of   *)
(* the fragments on the stack, in stack order (what the fragments pushed   *)
(* to the owner's values).                                                 *)
(*                                                                         *)
(* A method call runs in a context cx: the Condition c, the values array   *)
(* of the owning query (this.query.values), the driver of its connection   *)
(* and ok, FALSE once a QueryError has been thrown.  A method returns the  *)
(* context as the call leaves it.                                          *)
(***************************************************************************)
NewCondition ==
    [stack |-> <<>>, negate |-> FALSE, opened |-> 0, column |-> Undefined,
     bound |-> <<>>]

Cx(c, values, con) == [c |-> c, values |-> values, con |-> con, ok |-> TRUE]

Throw(cx) == [cx EXCEPT !.ok = FALSE]

\* a comparison without `this.negate = false`
PushFragment_keepsNegate(cx, fragment, vals) ==
    [cx EXCEPT !.c.stack = Append(@, fragment),
               !.c.bound = @ \o vals,
               !.values = @ \o vals]

\* this.stack.push(fragment), the values of its placeholders pushed to
\* this.query.values, and this.negate = false
PushFragment(cx, fragment, vals) ==
    [cx EXCEPT !.c.stack = Append(@, fragment),
               !.c.bound = @ \o vals,
               !.c.negate = FALSE,
               !.values = @ \o vals]

\* the same for a fragment that holds a nested statement: the nested
\* statement's values are pushed, and the history field takes the values of
\* the nested statement's placeholders
PushSubquery(cx, fragment, vals, placeholders) ==
    [cx EXCEPT !.c.stack = Append(@, fragment),
               !.c.bound = @ \o placeholders,
               !.c.negate = FALSE,
               !.values = @ \o vals]

\* const not = this.negate ? 'NOT ' : ''
NotPrefix(cx) == IF cx.c.negate THEN "NOT " ELSE ""

\* const placeholder = isRef ? value.column : '?'
Placeholder(v) == IF isRef(v) THEN v.s ELSE "?"

\* this.query.values.push(value) without the test of isRef
BoundOf_alsoMarkers(v) == <<v>>

\* if (!isRef) this.query.values.push(value)
BoundOf(v) == IF isRef(v) THEN <<>> ELSE <<v>>

Condition_build(c) ==
    LET condition == Trim(Join(c.stack, ""))
    IN  IF c.opened # 0 THEN [ok |-> FALSE, text |-> "Unmatched parentheses"]
        ELSE IF TestSeq(condition, "(", "AND") \/ TestSeq(condition, "(", "OR")
        THEN [ok |-> FALSE, text |-> "AND/OR after ("]
        ELSE IF TestSeq(condition, "AND", ")") \/ TestSeq(condition, "OR", ")")
        THEN [ok |-> FALSE, text |-> "AND/OR before )"]
        ELSE IF TestSeq(condition, "AND", "AND") \/ TestSeq(condition, "OR", "OR")
        THEN [ok |-> FALSE, text |-> "Consecutive AND/OR"]
        ELSE IF TestSeq(condition, "(", ")")
        THEN [ok |-> FALSE, text |-> "Empty parentheses"]
        ELSE IF EndsWith(condition, "AND") \/ EndsWith(condition, "OR")
        THEN [ok |-> FALSE, text |-> "ends with an operator"]
        ELSE IF StartsWith(condition, "AND") \/ StartsWith(condition, "OR")
        THEN [ok |-> FALSE, text |-> "starts with an operator"]
        ELSE IF condition = ""
        THEN [ok |-> FALSE, text |-> "Condition cannot be empty"]
        ELSE [ok |-> TRUE, text |-> condition]

\* raw(condition, ...values): the values before the first invalid one are
\* pushed before the throw
RECURSIVE RawValues(_, _)
RawValues(cx, values) ==
    IF values = <<>> THEN cx
    ELSE IF ~(isFullStr(values[1]) \/ isNum(values[1])) THEN Throw(cx)
    ELSE RawValues([cx EXCEPT !.values = Append(@, values[1])], Tail(values))

\* this.stack.push(condition), reached when no value threw
RawFragment(pushed, condition, values) ==
    IF ~pushed.ok THEN pushed
    ELSE [pushed EXCEPT !.c.stack = Append(@, condition.s),
                        !.c.bound = @ \o values]

Condition_raw(cx, condition, values) ==
    IF ~isFullStr(condition) THEN Throw(cx)
    ELSE RawFragment(RawValues(cx, values), condition, values)

Condition_not(cx) == [cx EXCEPT !.c.negate = TRUE]

Condition_open(cx) ==
    [cx EXCEPT !.c.stack = Append(@, "("), !.c.opened = @ + 1]

Condition_close(cx) ==
    [cx EXCEPT !.c.stack = Append(@, ")"), !.c.opened = @ - 1]

Condition_paren(cx) ==
    IF cx.c.opened = 0 THEN Condition_open(cx) ELSE Condition_close(cx)

Condition_and(cx) == [cx EXCEPT !.c.stack = Append(@, " AND ")]

Condition_or(cx) == [cx EXCEPT !.c.stack = Append(@, " OR ")]

Condition_col(cx, name) ==
    IF ~isFullStr(name) THEN Throw(cx)
    ELSE [cx EXCEPT !.c.column = name]

Condition_inDate(cx, date) ==
    IF ~isFullStr(cx.c.column) THEN Throw(cx)
    ELSE IF ~(isRef(date) \/ isFullStr(date)) THEN Throw(cx)
    ELSE PushFragment(cx,
            NotPrefix(cx) \o exDate(cx.c.column.s) \o " = " \o Placeholder(date),
            BoundOf(date))

Condition_inTime(cx, time) ==
    IF ~isFullStr(cx.c.column) THEN Throw(cx)
    ELSE IF ~(isRef(time) \/ isFullStr(time)) THEN Throw(cx)
    ELSE PushFragment(cx,
            NotPrefix(cx) \o exTime(cx.c.column.s, cx.con) \o " = "
                \o Placeholder(time),
            BoundOf(time))

Condition_inYear(cx, year) ==
    IF ~isFullStr(cx.c.column) THEN Throw(cx)
    ELSE IF ~(isRef(year) \/ (isInt(year) /\ year.n > 0)) THEN Throw(cx)
    ELSE PushFragment(cx,
            NotPrefix(cx) \o exYear(cx.c.column.s, cx.con) \o " = "
                \o Placeholder(year),
            BoundOf(year))

\* a variant with an open upper end: a thirteenth month goes through
Condition_inMonth_noUpperEnd(cx, month) ==
    IF ~isFullStr(cx.c.column) THEN Throw(cx)
    ELSE IF ~(isRef(month) \/ (isInt(month) /\ month.n >= 1))
    THEN Throw(cx)
    ELSE PushFragment(cx,
            NotPrefix(cx) \o exMonth(cx.c.column.s, cx.con) \o " = "
                \o Placeholder(month),
            BoundOf(month))

Condition_inMonth(cx, month) ==
    IF ~isFullStr(cx.c.column) THEN Throw(cx)
    ELSE IF ~(isRef(month) \/ (isInt(month) /\ month.n >= 1 /\ month.n <= 12))
    THEN Throw(cx)
    ELSE PushFragment(cx,
            NotPrefix(cx) \o exMonth(cx.c.column.s, cx.con) \o " = "
                \o Placeholder(month),
            BoundOf(month))

Condition_inDay(cx, day) ==
    IF ~isFullStr(cx.c.column) THEN Throw(cx)
    ELSE IF ~(isRef(day) \/ (isInt(day) /\ day.n >= 1 /\ day.n <= 31))
    THEN Throw(cx)
    ELSE PushFragment(cx,
            NotPrefix(cx) \o exDay(cx.c.column.s, cx.con) \o " = "
                \o Placeholder(day),
            BoundOf(day))

Condition_inHour(cx, hour) ==
    IF ~isFullStr(cx.c.column) THEN Throw(cx)
    ELSE IF ~(isRef(hour) \/ (isInt(hour) /\ hour.n >= 0 /\ hour.n <= 23))
    THEN Throw(cx)
    ELSE PushFragment(cx,
            NotPrefix(cx) \o exHour(cx.c.column.s, cx.con) \o " = "
                \o Placeholder(hour),
            BoundOf(hour))

Condition_inMinute(cx, minute) ==
    IF ~isFullStr(cx.c.column) THEN Throw(cx)
    ELSE IF ~(isRef(minute) \/ (isInt(minute) /\ minute.n >= 0 /\ minute.n <= 59))
    THEN Throw(cx)
    ELSE PushFragment(cx,
            NotPrefix(cx) \o exMinute(cx.c.column.s, cx.con) \o " = "
                \o Placeholder(minute),
            BoundOf(minute))

Condition_inSecond(cx, second) ==
    IF ~isFullStr(cx.c.column) THEN Throw(cx)
    ELSE IF ~(isRef(second) \/ (isInt(second) /\ second.n >= 0 /\ second.n <= 59))
    THEN Throw(cx)
    ELSE PushFragment(cx,
            NotPrefix(cx) \o exSecond(cx.c.column.s, cx.con) \o " = "
                \o Placeholder(second),
            BoundOf(second))

Condition_equal(cx, value) ==
    IF ~isFullStr(cx.c.column) THEN Throw(cx)
    ELSE IF ~(isRef(value) \/ isFullStr(value) \/ isNum(value)) THEN Throw(cx)
    ELSE PushFragment(cx,
            NotPrefix(cx) \o cx.c.column.s \o " = " \o Placeholder(value),
            BoundOf(value))

Condition_lessThan(cx, value) ==
    IF ~isFullStr(cx.c.column) THEN Throw(cx)
    ELSE IF ~(isRef(value) \/ isFullStr(value) \/ isNum(value)) THEN Throw(cx)
    ELSE PushFragment(cx,
            NotPrefix(cx) \o cx.c.column.s \o " < " \o Placeholder(value),
            BoundOf(value))

Condition_lessThanOrEqual(cx, value) ==
    IF ~isFullStr(cx.c.column) THEN Throw(cx)
    ELSE IF ~(isRef(value) \/ isFullStr(value) \/ isNum(value)) THEN Throw(cx)
    ELSE PushFragment(cx,
            NotPrefix(cx) \o cx.c.column.s \o " <= " \o Placeholder(value),
            BoundOf(value))

Condition_greaterThan(cx, value) ==
    IF ~isFullStr(cx.c.column) THEN Throw(cx)
    ELSE IF ~(isRef(value) \/ isFullStr(value) \/ isNum(value)) THEN Throw(cx)
    ELSE PushFragment(cx,
            NotPrefix(cx) \o cx.c.column.s \o " > " \o Placeholder(value),
            BoundOf(value))

Condition_greaterThanOrEqual(cx, value) ==
    IF ~isFullStr(cx.c.column) THEN Throw(cx)
    ELSE IF ~(isRef(value) \/ isFullStr(value) \/ isNum(value)) THEN Throw(cx)
    ELSE PushFragment(cx,
            NotPrefix(cx) \o cx.c.column.s \o " >= " \o Placeholder(value),
            BoundOf(value))

Condition_between(cx, start, end) ==
    IF ~isFullStr(cx.c.column) THEN Throw(cx)
    ELSE IF ~(isRef(start) \/ isFullStr(start) \/ isNum(start)) THEN Throw(cx)
    ELSE IF ~(isRef(end) \/ isFullStr(end) \/ isNum(end)) THEN Throw(cx)
    ELSE PushFragment(cx,
            NotPrefix(cx) \o cx.c.column.s \o " BETWEEN " \o Placeholder(start)
                \o " AND " \o Placeholder(end),
            BoundOf(start) \o BoundOf(end))

\* values.map((v) => (v instanceof Ref ? v.column : '?'))
Placeholders(values) == [i \in 1..Len(values) |-> Placeholder(values[i])]

\* values.forEach((v) => v instanceof Ref ? null : this.query.values.push(v))
RECURSIVE BoundOfAll(_)
BoundOfAll(values) ==
    IF values = <<>> THEN <<>> ELSE BoundOf(values[1]) \o BoundOfAll(Tail(values))

Condition_in(cx, values) ==
    IF ~isFullStr(cx.c.column) THEN Throw(cx)
    ELSE IF values = <<>> THEN Throw(cx)
    ELSE IF \E i \in 1..Len(values) :
               ~(isRef(values[i]) \/ isFullStr(values[i]) \/ isNum(values[i]))
    THEN Throw(cx)
    ELSE PushFragment(cx,
            NotPrefix(cx) \o cx.c.column.s \o " IN ("
                \o Join(Placeholders(values), ", ") \o ")",
            BoundOfAll(values))

Condition_like(cx, value) ==
    IF ~isFullStr(cx.c.column) THEN Throw(cx)
    ELSE IF ~(isRef(value) \/ isFullStr(value)) THEN Throw(cx)
    ELSE PushFragment(cx,
            NotPrefix(cx) \o cx.c.column.s \o " LIKE " \o Placeholder(value),
            BoundOf(value))

\* isNull() without the check of this.column
Condition_isNull_anyColumn(cx) ==
    PushFragment(cx, NotPrefix(cx) \o cx.c.column.s \o " IS NULL", <<>>)

Condition_isNull(cx) ==
    IF ~isFullStr(cx.c.column) THEN Throw(cx)
    ELSE PushFragment(cx, NotPrefix(cx) \o cx.c.column.s \o " IS NULL", <<>>)

(***************************************************************************)
(* class Select (its source is quoted in src/README.md).  A Select object  *)
(* is a record of the fields of this.state and of the fields inherited     *)
(* from Query.  A method returns a result: the object as the call leaves   *)
(* it, ok = FALSE when the call threw, and the text a build returns.       *)
(***************************************************************************)
\* state.columns is the string '*' or an array of names
Star        == [array |-> FALSE, text |-> "*", items |-> <<>>]
Array(list) == [array |-> TRUE, text |-> "", items |-> list]

ASC  == Sym("ASC")
DESC == Sym("DESC")

NewSelect(connection) ==
    [table |-> Undefined, columns |-> Star, order |-> <<>>, group |-> <<>>,
     distinct |-> FALSE, limit |-> Undefined, joins |-> <<>>,
     where |-> Undefined, having |-> Undefined, unions |-> <<>>,
     offset |-> Undefined,
     values |-> <<>>, query |-> Undefined, connection |-> connection]

Return(self)       == [self |-> self, ok |-> TRUE, text |-> ""]
Raise(self)        == [self |-> self, ok |-> FALSE, text |-> ""]
Result(self, text) == [self |-> self, ok |-> TRUE, text |-> text]

Select_reset(s) ==
    Return([s EXCEPT !.table = Undefined, !.columns = Star, !.order = <<>>,
                     !.group = <<>>, !.distinct = FALSE, !.limit = Undefined,
                     !.joins = <<>>, !.where = Undefined, !.unions = <<>>,
                     !.having = Undefined,
                     !.values = <<>>, !.query = Undefined])

\* this.state.joins.map((join) => join.condition.build())
JoinsBuilt(s) == [i \in 1..Len(s.joins) |-> Condition_build(s.joins[i].condition)]

\* the build of an optional condition (not evaluated when it is undefined)
BuiltIfAny(c) ==
    IF c = Undefined THEN [ok |-> TRUE, text |-> ""] ELSE Condition_build(c)

JoinsText(s, joins) ==
    Join([i \in 1..Len(s.joins) |->
            s.joins[i].type \o " JOIN " \o s.joins[i].table \o " ON "
                \o joins[i].text], " ")

OrderText(s) ==
    Join([i \in 1..Len(s.order) |-> s.order[i].column \o " " \o s.order[i].type],
         ", ")

UnionsText(s) ==
    Join([i \in 1..Len(s.unions) |->
            (IF s.unions[i].all THEN "UNION ALL" ELSE "UNION") \o " "
                \o s.unions[i].query], " ")

\* the statement of build(), given the builds of the join, where and having
\* conditions; any of them that throws makes build() throw
Statement(s, subquery, joins, where, having) ==
    IF \E i \in 1..Len(joins) : ~joins[i].ok THEN Raise(s)
    ELSE IF ~where.ok \/ ~having.ok THEN Raise(s)
    ELSE LET columns == IF s.columns.array THEN Join(s.columns.items, ", ")
                        ELSE s.columns.text
             distinct == IF s.distinct THEN "DISTINCT " ELSE ""
             statement ==
                "SELECT " \o distinct \o columns \o " FROM " \o s.table.s
                \o (IF Len(s.joins) > 0 THEN " " \o JoinsText(s, joins) ELSE "")
                \o (IF s.where # Undefined THEN " WHERE " \o where.text ELSE "")
                \o (IF Len(s.group) > 0
                    THEN " GROUP BY " \o Join(s.group, ", ") ELSE "")
                \o (IF s.having # Undefined THEN " HAVING " \o having.text ELSE "")
                \o (IF Len(s.order) > 0 THEN " ORDER BY " \o OrderText(s) ELSE "")
                \o (IF isDefined(s.limit)
                    THEN " LIMIT " \o ToString(s.limit.n) ELSE "")
                \o (IF isDefined(s.offset)
                    THEN " OFFSET " \o ToString(s.offset.n) ELSE "")
                \o (IF Len(s.unions) > 0 THEN " " \o UnionsText(s) ELSE "")
         IN  Result(s, statement \o (IF subquery THEN "" ELSE ";"))

Select_build(s, subquery) ==
    IF ~isFullStr(s.table) THEN Raise(s)
    ELSE Statement(s, subquery, JoinsBuilt(s), BuiltIfAny(s.where),
                   BuiltIfAny(s.having))

\* history: the values of the placeholders of a Select's text, in the order
\* build() renders the clauses that hold them
RECURSIVE ConcatBound(_)
ConcatBound(items) ==
    IF items = <<>> THEN <<>> ELSE items[1].bound \o ConcatBound(Tail(items))

SelectBound(s) ==
    ConcatBound([i \in 1..Len(s.joins) |-> s.joins[i].condition])
    \o (IF s.where # Undefined THEN s.where.bound ELSE <<>>)
    \o (IF s.having # Undefined THEN s.having.bound ELSE <<>>)
    \o ConcatBound(s.unions)

\* subquery(select) on a new Select: the calls the function makes, up to the
\* first that throws
RECURSIVE RunSelect(_, _)

\* condition(col, con) on a Condition: the calls the function makes, up to
\* the first that throws
RECURSIVE RunCallback(_, _)

(***************************************************************************)
(* class Condition, the methods that take a subquery.                      *)
(***************************************************************************)
\* the same with select.build() in place of select.build(true)
BuildSubquery_terminated(ran) ==
    IF ~ran.ok THEN ran ELSE Select_build(ran.self, FALSE)

\* select.build(true), reached when subquery(select) did not throw
BuildSubquery(ran) == IF ~ran.ok THEN ran ELSE Select_build(ran.self, TRUE)

\* const select = new Select(this.query.connection); subquery(select);
\* select.build(true)
Subquery(con, subquery) ==
    BuildSubquery(RunSelect(Return(NewSelect(con)), subquery.ops))

\* the fragment `${not}${head}(${select.build(true)})` and the values of
\* select.get.values(); nothing is pushed when the subquery threw
Splice(cx, head, select) ==
    IF ~select.ok THEN Throw(cx)
    ELSE PushSubquery(cx, NotPrefix(cx) \o head \o "(" \o select.text \o ")",
                      select.self.values, SelectBound(select.self))

Condition_inSubquery(cx, subquery) ==
    IF ~isFullStr(cx.c.column) THEN Throw(cx)
    ELSE IF ~isFunc(subquery) THEN Throw(cx)
    ELSE Splice(cx, cx.c.column.s \o " IN ", Subquery(cx.con, subquery))

Condition_exists(cx, subquery) ==
    IF ~isFunc(subquery) THEN Throw(cx)
    ELSE Splice(cx, "EXISTS ", Subquery(cx.con, subquery))

Condition_any(cx, operator, subquery) ==
    IF ~isFullStr(cx.c.column) THEN Throw(cx)
    ELSE IF invalidOperator(operator) THEN Throw(cx)
    ELSE IF ~isFunc(subquery) THEN Throw(cx)
    ELSE Splice(cx, cx.c.column.s \o " " \o operator.s \o " ANY ",
                Subquery(cx.con, subquery))

Condition_all(cx, operator, subquery) ==
    IF ~isFullStr(cx.c.column) THEN Throw(cx)
    ELSE IF invalidOperator(operator) THEN Throw(cx)
    ELSE IF ~isFunc(subquery) THEN Throw(cx)
    ELSE Splice(cx, cx.c.column.s \o " " \o operator.s \o " ALL ",
                Subquery(cx.con, subquery))

\* one call on an object: m the method, a and b its arguments (Undefined
\* when absent, List(...) for rest arguments)
Call(m, a, b) == [m |-> m, a |-> a, b |-> b]

Condition_call(cx, call) ==
    CASE call.m = "col"                -> Condition_col(cx, call.a)
      [] call.m = "raw"                -> Condition_raw(cx, call.a, call.b.items)
      [] call.m = "not"                -> Condition_not(cx)
      [] call.m = "open"               -> Condition_open(cx)
      [] call.m = "close"              -> Condition_close(cx)
      [] call.m = "paren"              -> Condition_paren(cx)
      [] call.m = "and"                -> Condition_and(cx)
      [] call.m = "or"                 -> Condition_or(cx)
      [] call.m = "inDate"             -> Condition_inDate(cx, call.a)
      [] call.m = "inTime"             -> Condition_inTime(cx, call.a)
      [] call.m = "inYear"             -> Condition_inYear(cx, call.a)
      [] call.m = "inMonth"            -> Condition_inMonth(cx, call.a)
      [] call.m = "inDay"              -> Condition_inDay(cx, call.a)
      [] call.m = "inHour"             -> Condition_inHour(cx, call.a)
      [] call.m = "inMinute"           -> Condition_inMinute(cx, call.a)
      [] call.m = "inSecond"           -> Condition_inSecond(cx, call.a)
      [] call.m = "equal"              -> Condition_equal(cx, call.a)
      [] call.m = "lessThan"           -> Condition_lessThan(cx, call.a)
      [] call.m = "lessThanOrEqual"    -> Condition_lessThanOrEqual(cx, call.a)
      [] call.m = "greaterThan"        -> Condition_greaterThan(cx, call.a)
      [] call.m = "greaterThanOrEqual" -> Condition_greaterThanOrEqual(cx, call.a)
      [] call.m = "between"            -> Condition_between(cx, call.a, call.b)
      [] call.m = "in"                 -> Condition_in(cx, call.a.items)
      [] call.m = "inSubquery"         -> Condition_inSubquery(cx, call.a)
      [] call.m = "like"               -> Condition_like(cx, call.a)
      [] call.m = "isNull"             -> Condition_isNull(cx)
      [] call.m = "exists"             -> Condition_exists(cx, call.a)
      [] call.m = "any"                -> Condition_any(cx, call.a, call.b)
      [] call.m = "all"                -> Condition_all(cx, call.a, call.b)

RunCallback(cx, calls) ==
    IF calls = <<>> \/ ~cx.ok THEN cx
    ELSE RunCallback(Condition_call(cx, calls[1]), Tail(calls))

(***************************************************************************)
(* class Select, the clause methods.                                       *)
(***************************************************************************)
\* a Condition call made by a statement q on one of its conditions c (a new
\* Condition when c is undefined); the statement's values follow
OnCondition(q, c, calls) ==
    RunCallback(Cx(IF c = Undefined THEN NewCondition ELSE c,
                   q.values, q.connection), calls)

NoArgs(m) == <<Call(m, Undefined, Undefined)>>

\* the Select after a call on this.state.where that left the context cx
WithWhere(s, cx) ==
    [self |-> [s EXCEPT !.where = cx.c, !.values = cx.values],
     ok |-> cx.ok, text |-> ""]

WithHaving(s, cx) ==
    [self |-> [s EXCEPT !.having = cx.c, !.values = cx.values],
     ok |-> cx.ok, text |-> ""]

\* and() that creates the Condition as paren() does
Select_and_creates(s) ==
    WithWhere(s, OnCondition(s, s.where, NoArgs("and")))

Select_and(s) ==
    IF isUndefined(s.where) THEN Raise(s)
    ELSE WithWhere(s, OnCondition(s, s.where, NoArgs("and")))

Select_or(s) ==
    IF isUndefined(s.where) THEN Raise(s)
    ELSE WithWhere(s, OnCondition(s, s.where, NoArgs("or")))

Select_paren(s) == WithWhere(s, OnCondition(s, s.where, NoArgs("paren")))

Select_open(s) == WithWhere(s, OnCondition(s, s.where, NoArgs("open")))

Select_close(s) ==
    IF isUndefined(s.where) THEN Raise(s)
    ELSE WithWhere(s, OnCondition(s, s.where, NoArgs("close")))

Select_col(s, columns) ==
    IF \E i \in 1..Len(columns) : ~isFullStr(columns[i]) THEN Raise(s)
    ELSE Return([s EXCEPT !.columns =
                    Array([i \in 1..Len(columns) |-> columns[i].s])])

Select_from(s, name) ==
    IF ~isFullStr(name) THEN Raise(s)
    ELSE Return([s EXCEPT !.table = name])

Select_distinct(s) == Return([s EXCEPT !.distinct = TRUE])

\* offset() that also drops the limit
Select_offset_clearsLimit(s, value) ==
    IF ~isInt(value) \/ value.n < 0 THEN Raise(s)
    ELSE Return([s EXCEPT !.offset = value, !.limit = Undefined])

Select_offset(s, value) ==
    IF ~isInt(value) \/ value.n < 0 THEN Raise(s)
    ELSE Return([s EXCEPT !.offset = value])

Select_limit(s, value) ==
    IF ~isInt(value) \/ value.n < 0 THEN Raise(s)
    ELSE Return([s EXCEPT !.limit = value])

\* join, leftJoin and rightJoin differ in the type only
\* this.state.joins.push(join), reached when the callback did not throw
WithJoin(s, type, table, cx) ==
    IF ~cx.ok THEN Raise([s EXCEPT !.values = cx.values])
    ELSE Return([s EXCEPT !.values = cx.values,
                          !.joins = Append(@, [table |-> table.s,
                                               condition |-> cx.c,
                                               type |-> type])])

JoinOfType(s, type, table, condition) ==
    IF ~isFullStr(table) THEN Raise(s)
    ELSE IF ~isFunc(condition) THEN Raise(s)
    ELSE WithJoin(s, type, table, OnCondition(s, Undefined, condition.ops))

Select_join(s, table, condition) == JoinOfType(s, "INNER", table, condition)

Select_leftJoin(s, table, condition) == JoinOfType(s, "LEFT", table, condition)

Select_rightJoin(s, table, condition) == JoinOfType(s, "RIGHT", table, condition)

Select_groupBy(s, columns) ==
    IF \E i \in 1..Len(columns) : ~isFullStr(columns[i]) THEN Raise(s)
    ELSE Return([s EXCEPT !.group =
                    @ \o [i \in 1..Len(columns) |-> columns[i].s]])

\* type: typeof ASC | typeof DESC = ASC
Select_orderBy(s, column, type) ==
    LET direction == IF isUndefined(type) THEN ASC ELSE type
    IN  IF ~isFullStr(column) THEN Raise(s)
        ELSE IF direction \notin {ASC, DESC} THEN Raise(s)
        ELSE Return([s EXCEPT !.order =
                        Append(@, [column |-> column.s, type |-> direction.s])])

Select_where(s, condition) ==
    IF ~isFunc(condition) THEN Raise(s)
    ELSE WithWhere(s, OnCondition(s, s.where, condition.ops))

Select_having(s, condition) ==
    IF ~isFunc(condition) THEN Raise(s)
    ELSE WithHaving(s, OnCondition(s, s.having, condition.ops))

\* this.state.unions.push(...) and this.values.push(...select.get.values()),
\* reached when neither subquery(select) nor select.build(true) threw
WithUnion(s, all, select) ==
    IF ~select.ok THEN Raise(s)
    ELSE Return([s EXCEPT
            !.unions = Append(@, [query |-> select.text, all |-> all,
                                  bound |-> SelectBound(select.self)]),
            !.values = @ \o select.self.values])

\* union and unionAll differ in the all flag only
UnionOf(s, all, subquery) ==
    IF ~isFunc(subquery) THEN Raise(s)
    ELSE WithUnion(s, all, Subquery(s.connection, subquery))

Select_union(s, subquery) == UnionOf(s, FALSE, subquery)

Select_unionAll(s, subquery) == UnionOf(s, TRUE, subquery)

\* one call on a Select
Select_call(s, call) ==
    CASE call.m = "reset"     -> Select_reset(s)
      [] call.m = "and"       -> Select_and(s)
      [] call.m = "or"        -> Select_or(s)
      [] call.m = "paren"     -> Select_paren(s)
      [] call.m = "open"      -> Select_open(s)
      [] call.m = "close"     -> Select_close(s)
      [] call.m = "col"       -> Select_col(s, call.a.items)
      [] call.m = "from"      -> Select_from(s, call.a)
      [] call.m = "distinct"  -> Select_distinct(s)
      [] call.m = "offset"    -> Select_offset(s, call.a)
      [] call.m = "limit"     -> Select_limit(s, call.a)
      [] call.m = "join"      -> Select_join(s, call.a, call.b)
      [] call.m = "leftJoin"  -> Select_leftJoin(s, call.a, call.b)
      [] call.m = "rightJoin" -> Select_rightJoin(s, call.a, call.b)
      [] call.m = "groupBy"   -> Select_groupBy(s, call.a.items)
      [] call.m = "orderBy"   -> Select_orderBy(s, call.a, call.b)
      [] call.m = "where"     -> Select_where(s, call.a)
      [] call.m = "having"    -> Select_having(s, call.a)
      [] call.m = "union"     -> Select_union(s, call.a)
      [] call.m = "unionAll"  -> Select_unionAll(s, call.a)

RunSelect(r, calls) ==
    IF calls = <<>> \/ ~r.ok THEN r
    ELSE RunSelect(Select_call(r.self, calls[1]), Tail(calls))

(***************************************************************************)
(* class Insert.  this.values is an array of row-vectors.                  *)
(***************************************************************************)
\* Object.keys(row) and Object.values(row)
Keys(row)   == [i \in 1..Len(row.entries) |-> Str(row.entries[i].key)]
Values(row) == [i \in 1..Len(row.entries) |-> row.entries[i].value]

NewInsert(connection) ==
    [table |-> Undefined, columns |-> Undefined, returnings |-> Undefined,
     values |-> <<>>, query |-> Undefined, connection |-> connection]

Insert_reset(q) ==
    Return([q EXCEPT !.table = Undefined, !.columns = Undefined,
                     !.values = <<>>, !.query = Undefined])

\* the same with a placeholder at every position
RowText_allPlaceholders(r) ==
    "(" \o Join([i \in 1..Len(r) |-> "?"], ", ") \o ")"

\* (r) => `(${r.map((v) => (v === null ? 'NULL' : '?')).join(', ')})`
RowText(r) ==
    "(" \o Join([i \in 1..Len(r) |-> IF r[i] = Null THEN "NULL" ELSE "?"], ", ")
        \o ")"

Insert_build(q) ==
    IF ~isFullStr(q.table) THEN Raise(q)
    ELSE IF ~isArrOfStr(q.columns) THEN Raise(q)
    ELSE IF q.values = <<>> THEN Raise(q)
    ELSE LET columns == Join([i \in 1..Len(q.columns.items) |->
                                q.columns.items[i].s], ", ")
             values == Join([i \in 1..Len(q.values) |-> RowText(q.values[i])],
                            ", ")
             returnings ==
                IF q.returnings # Undefined
                THEN " RETURNING " \o Join([i \in 1..Len(q.returnings.items) |->
                                              q.returnings.items[i].s], ", ")
                ELSE ""
         IN  Result([q EXCEPT !.values =
                        [i \in 1..Len(q.values) |-> FilterNotNull(q.values[i])]],
                    "INSERT INTO " \o q.table.s \o " (" \o columns \o ") VALUES "
                        \o values \o returnings \o ";")

Insert_into(q, table) ==
    IF ~isFullStr(table) THEN Raise(q)
    ELSE Return([q EXCEPT !.table = table])

Insert_returning(q, columns) ==
    IF ~isArrOfStr(List(columns)) THEN Raise(q)
    ELSE Return([q EXCEPT !.returnings = List(columns)])

\* the same without the test of the names
RowColumns_lengthOnly(q, columns) ==
    IF isArr(q.columns)
    THEN IF Len(q.columns.items) # Len(columns) THEN Raise(q) ELSE Return(q)
    ELSE IF columns = <<>> THEN Raise(q)
         ELSE Return([q EXCEPT !.columns = List(columns)])

\* the first half of row(): the keys are checked against this.columns, or
\* become this.columns
RowColumns(q, columns) ==
    IF isArr(q.columns)
    THEN IF Len(q.columns.items) # Len(columns) THEN Raise(q)
         ELSE IF ~\A i \in 1..Len(q.columns.items) :
                    \E j \in 1..Len(columns) : columns[j] = q.columns.items[i]
         THEN Raise(q)
         ELSE Return(q)
    ELSE IF columns = <<>> THEN Raise(q)
         ELSE Return([q EXCEPT !.columns = List(columns)])

\* the second half: the values are checked and pushed as one row-vector
RowValues(checked, values) ==
    IF ~checked.ok THEN checked
    ELSE IF \E i \in 1..Len(values) :
                ~(isNull(values[i]) \/ isStr(values[i]) \/ isNum(values[i]))
    THEN Raise(checked.self)
    ELSE Return([checked.self EXCEPT !.values = Append(@, values)])

Insert_row(q, row) ==
    IF ~isObj(row) THEN Raise(q)
    ELSE RowValues(RowColumns(q, Keys(row)), Values(row))

\* rows.forEach((row) => this.row(row)): stops at the first row that throws
RECURSIVE EachRow(_, _)
EachRow(r, rows) ==
    IF rows = <<>> \/ ~r.ok THEN r
    ELSE EachRow(Insert_row(r.self, rows[1]), Tail(rows))

Insert_rows(q, rows) ==
    IF ~isArrOfObj(rows) THEN Raise(q)
    ELSE IF Len(rows.items) < 2 THEN Raise(q)
    ELSE EachRow(Return(q), rows.items)

(***************************************************************************)
(* class Update.                                                           *)
(***************************************************************************)
NewUpdate(connection) ==
    [table |-> Undefined, columns |-> <<>>, condition |-> Undefined,
     values |-> <<>>, query |-> Undefined, connection |-> connection]

\* reset() without `this.state.condition = undefined`
Update_reset_keepsCondition(q) ==
    Return([q EXCEPT !.table = Undefined, !.columns = <<>>,
                     !.values = <<>>, !.query = Undefined])

Update_reset(q) ==
    Return([q EXCEPT !.table = Undefined, !.columns = <<>>,
                     !.condition = Undefined,
                     !.values = <<>>, !.query = Undefined])

\* (c, i) => (this.values[i] === null ? `${c} = NULL` : `${c} = ?`)
SetText(q) ==
    Join([i \in 1..Len(q.columns) |->
            IF i <= Len(q.values) /\ q.values[i] = Null
            THEN q.columns[i] \o " = NULL" ELSE q.columns[i] \o " = ?"], ", ")

\* this.values is filtered before the template evaluates condition.build()
UpdateStatement(q, filtered, condition) ==
    IF ~condition.ok THEN Raise(filtered)
    ELSE Result(filtered,
                "UPDATE " \o q.table.s \o " SET " \o SetText(q) \o " WHERE "
                    \o condition.text \o ";")

Update_build(q) ==
    IF ~isFullStr(q.table) THEN Raise(q)
    ELSE IF q.columns = <<>> THEN Raise(q)
    ELSE IF q.values = <<>> THEN Raise(q)
    ELSE IF q.condition = Undefined THEN Raise(q)
    ELSE UpdateStatement(q, [q EXCEPT !.values = FilterNotNull(q.values)],
                         Condition_build(q.condition))

Update_set(q, row) ==
    IF ~isObj(row) THEN Raise(q)
    ELSE LET columns == Keys(row)
             values == Values(row)
         IN  IF \E i \in 1..Len(values) :
                    ~(isStr(values[i]) \/ isNum(values[i]) \/ isNull(values[i]))
             THEN Raise(q)
             ELSE Return([q EXCEPT
                    !.columns = [i \in 1..Len(columns) |-> columns[i].s],
                    !.values = values])

Update_table(q, name) ==
    IF ~isFullStr(name) THEN Raise(q)
    ELSE Return([q EXCEPT !.table = name])

\* the statement after a call on its condition that left the context cx
WithCondition(q, cx) ==
    [self |-> [q EXCEPT !.condition = cx.c, !.values = cx.values],
     ok |-> cx.ok, text |-> ""]

Update_where(q, condition) ==
    IF ~isFunc(condition) THEN Raise(q)
    ELSE WithCondition(q, OnCondition(q, q.condition, condition.ops))

Update_and(q) ==
    IF isUndefined(q.condition) THEN Raise(q)
    ELSE WithCondition(q, OnCondition(q, q.condition, NoArgs("and")))

Update_or(q) ==
    IF isUndefined(q.condition) THEN Raise(q)
    ELSE WithCondition(q, OnCondition(q, q.condition, NoArgs("or")))

Update_paren(q) == WithCondition(q, OnCondition(q, q.condition, NoArgs("paren")))

Update_open(q) == WithCondition(q, OnCondition(q, q.condition, NoArgs("open")))

Update_close(q) ==
    IF isUndefined(q.condition) THEN Raise(q)
    ELSE WithCondition(q, OnCondition(q, q.condition, NoArgs("close")))

(***************************************************************************)
(* class Delete.                                                           *)
(***************************************************************************)
NewDelete(connection) ==
    [table |-> Undefined, condition |-> Undefined,
     values |-> <<>>, query |-> Undefined, connection |-> connection]

Delete_reset(q) ==
    Return([q EXCEPT !.table = Undefined, !.condition = Undefined,
                     !.values = <<>>, !.query = Undefined])

DeleteStatement(q, condition) ==
    IF ~condition.ok THEN Raise(q)
    ELSE Result(q, "DELETE FROM " \o q.table.s \o " WHERE " \o condition.text
                       \o ";")

\* the same with the Condition optional
Delete_build_conditionOptional(q) ==
    IF ~isFullStr(q.table) THEN Raise(q)
    ELSE IF q.condition = Undefined
    THEN Result(q, "DELETE FROM " \o q.table.s \o ";")
    ELSE DeleteStatement(q, Condition_build(q.condition))

Delete_build(q) ==
    IF ~isFullStr(q.table) THEN Raise(q)
    ELSE IF q.condition = Undefined THEN Raise(q)
    ELSE DeleteStatement(q, Condition_build(q.condition))

Delete_from(q, table) ==
    IF ~isFullStr(table) THEN Raise(q)
    ELSE Return([q EXCEPT !.table = table])

Delete_where(q, condition) ==
    IF ~isFunc(condition) THEN Raise(q)
    ELSE WithCondition(q, OnCondition(q, q.condition, condition.ops))

Delete_and(q) ==
    IF isUndefined(q.condition) THEN Raise(q)
    ELSE WithCondition(q, OnCondition(q, q.condition, NoArgs("and")))

Delete_or(q) ==
    IF isUndefined(q.condition) THEN Raise(q)
    ELSE WithCondition(q, OnCondition(q, q.condition, NoArgs("or")))

Delete_paren(q) == WithCondition(q, OnCondition(q, q.condition, NoArgs("paren")))

Delete_open(q) == WithCondition(q, OnCondition(q, q.condition, NoArgs("open")))

Delete_close(q) ==
    IF isUndefined(q.condition) THEN Raise(q)
    ELSE WithCondition(q, OnCondition(q, q.condition, NoArgs("close")))

(***************************************************************************)
(* The state: one builder object, of the class `kind`, made by             *)
(* MegaBuilder.select() / insert() / update() / delete() or, for kind      *)
(* "Condition", a Condition made by new Condition(select) as in the tests. *)
(* `last` is the outcome of the most recent call: the method, whether it   *)
(* returned (ok) or threw, and the text a build() returned.  `calls`       *)
(* counts the clause calls made so far.                                    *)
(***************************************************************************)
VARIABLES kind, select, insert, update, delete, condition, last, calls, pool

vars == <<kind, select, insert, update, delete, condition, last, calls, pool>>

\* the clause calls explored on one statement builder
MaxCalls == 3

\* the fragments explored on the stack of the Condition under test
MaxStack == 4

\* the same when every comparison method is explored
MaxTerms == 1

\* the values explored in the Value Sink of the Condition under test
MaxValues == 4

Kinds ==
    {"Select", "Insert", "Update", "Delete", "Condition", "Comparison",
     "DatePart"}

\* the drivers of the connection: the three of them where the date and time
\* comparisons are explored, which are the calls that depend on the driver
Drivers ==
    IF kind = "DatePart" THEN {"MySQL", "PostgreSQL", "SQLite"}
    ELSE {"MySQL"}

\* the connection: the queries it was given, in order, and the promise of
\* each exec() and count() made so far
NewPool == [queries |-> <<>>, answers |-> <<>>, promises |-> <<>>]

Init ==
    /\ kind \in Kinds
    /\ \E driver \in Drivers :
        /\ select = NewSelect(driver)
        /\ insert = NewInsert(driver)
        /\ update = NewUpdate(driver)
        /\ delete = NewDelete(driver)
    /\ condition = NewCondition
    /\ last = [call |-> "new", ok |-> TRUE, text |-> "", where |-> Undefined,
               clean |-> TRUE, row |-> Undefined, args |-> <<>>]
    /\ calls = 0
    /\ pool = NewPool

\* a callback of a promise is waiting to run: the then or the catch callback
\* of count(), or one of the callbacks of paginate()
Waiting(i) ==
    \/ pool.promises[i].state \in {"fulfilled", "failed", "threw"}
    \/ /\ pool.promises[i].state \in {"counting", "reading"}
       /\ pool.promises[pool.promises[i].on].state \in {"resolved", "rejected"}

\* callbacks of promises run before anything else does: the calls made on
\* the builders and the answers of the connection come when none is waiting
Idle == \A i \in 1..Len(pool.promises) : ~Waiting(i)

\* the call `call` returned or threw as the result r says; `where`, `clean`
\* and `row` are history fields: the WHERE Condition the statement had
\* before the call, whether no call made so far has thrown, and the row the
\* columns of an Update were last set from
Outcome(call, r, where) ==
    [call |-> call, ok |-> r.ok, text |-> r.text, where |-> where,
     clean |-> last.clean /\ r.ok, row |-> last.row, args |-> <<>>]

\* get.values().flat()
FlatValues ==
    CASE kind = "Insert" -> Flat(insert.values)
      [] kind = "Update" -> update.values
      [] kind = "Delete" -> delete.values
      [] OTHER           -> select.values

(***************************************************************************)
(* The arguments the calls are explored with.                              *)
(***************************************************************************)
None == Undefined

Col(name)    == Call("col", Str(name), None)
Equal(value) == Call("equal", value, None)

Tables == {Str("t")}

\* (col) => col('id').equal(1), a condition that binds two values, the empty
\* condition, a callback whose second comparison throws, one that ends with
\* not(), and a non-function
WhereCallbacks ==
    { Func(<<Col("id"), Equal(Num(1))>>),
      Func(<<Col("age"), Call("not", None, None),
             Call("between", Num(2), Num(3))>>),
      Func(<<>>),
      Func(<<Col("id"), Equal(Num(4)), Equal(Null)>>),
      Func(<<Col("id"), Equal(Num(9)), Call("not", None, None)>>),
      Str("id = 1") }

JoinCallbacks ==
    { Func(<<Col("t.id"), Equal(Ref("j.id"))>>),
      Func(<<Col("j.x"), Equal(Num(5))>>),
      Func(<<Col("j.x"), Equal(Num(6)), Equal(Null)>>) }

HavingCallbacks == { Func(<<Col("n"), Call("greaterThan", Num(7), None)>>) }

\* (select) => select.from('u'), one with a condition, and one that sets no
\* table, so that its build(true) throws
Subqueries ==
    { Func(<<Call("from", Str("u"), None)>>),
      Func(<<Call("from", Str("u"), None),
             Call("where", Func(<<Col("k"), Equal(Num(8))>>), None)>>),
      Func(<<>>) }

(***************************************************************************)
(* Select: one action per method.                                          *)
(***************************************************************************)
SelectStep(call, r) ==
    /\ select' = r.self
    /\ last' = Outcome(call, r, select.where)
    /\ calls' = calls + 1
    /\ UNCHANGED <<pool, kind, insert, update, delete, condition>>

SelectCanCall == kind = "Select" /\ calls < MaxCalls /\ Idle

SelectReset == SelectCanCall /\ SelectStep("reset", Select_reset(select))

\* build() is not a clause call
SelectBuilt(r) ==
    /\ select' = r.self
    /\ last' = Outcome("build", r, select.where)
    /\ UNCHANGED <<pool, kind, insert, update, delete, condition, calls>>

SelectBuild == kind = "Select" /\ SelectBuilt(Select_build(select, FALSE))

SelectAnd == SelectCanCall /\ SelectStep("and", Select_and(select))

SelectOr == SelectCanCall /\ SelectStep("or", Select_or(select))

SelectParen == SelectCanCall /\ SelectStep("paren", Select_paren(select))

SelectOpen == SelectCanCall /\ SelectStep("open", Select_open(select))

SelectClose == SelectCanCall /\ SelectStep("close", Select_close(select))

SelectCol ==
    /\ SelectCanCall
    /\ \E columns \in {<<Str("id")>>, <<Str("id"), Str("")>>, <<>>} :
        SelectStep("col", Select_col(select, columns))

SelectFrom ==
    /\ SelectCanCall
    /\ \E name \in Tables \cup {Str("")} :
        SelectStep("from", Select_from(select, name))

SelectDistinct == SelectCanCall /\ SelectStep("distinct", Select_distinct(select))

SelectOffset ==
    /\ SelectCanCall
    /\ \E value \in {Num(5), Num(-1)} :
        SelectStep("offset", Select_offset(select, value))

SelectLimit ==
    /\ SelectCanCall
    /\ \E value \in {Num(2), Frac(2)} :
        SelectStep("limit", Select_limit(select, value))

SelectJoin ==
    /\ SelectCanCall
    /\ \E table \in {Str("j")}, cb \in JoinCallbacks :
        SelectStep("join", Select_join(select, table, cb))

SelectLeftJoin ==
    /\ SelectCanCall
    /\ \E table \in {Str("j")}, cb \in JoinCallbacks :
        SelectStep("leftJoin", Select_leftJoin(select, table, cb))

SelectRightJoin ==
    /\ SelectCanCall
    /\ \E table \in {Str("j")}, cb \in JoinCallbacks :
        SelectStep("rightJoin", Select_rightJoin(select, table, cb))

SelectGroupBy ==
    /\ SelectCanCall
    /\ \E columns \in {<<Str("n")>>} :
        SelectStep("groupBy", Select_groupBy(select, columns))

SelectOrderBy ==
    /\ SelectCanCall
    /\ \E type \in {None, DESC, Str("DESC")} :
        SelectStep("orderBy", Select_orderBy(select, Str("id"), type))

SelectWhere ==
    /\ SelectCanCall
    /\ \E cb \in WhereCallbacks : SelectStep("where", Select_where(select, cb))

SelectHaving ==
    /\ SelectCanCall
    /\ \E cb \in HavingCallbacks : SelectStep("having", Select_having(select, cb))

SelectUnion ==
    /\ SelectCanCall
    /\ \E sub \in Subqueries : SelectStep("union", Select_union(select, sub))

SelectUnionAll ==
    /\ SelectCanCall
    /\ \E sub \in Subqueries :
        SelectStep("unionAll", Select_unionAll(select, sub))

NextSelect ==
    \/ SelectReset \/ SelectBuild \/ SelectAnd \/ SelectOr \/ SelectParen
    \/ SelectOpen \/ SelectClose \/ SelectCol \/ SelectFrom \/ SelectDistinct
    \/ SelectOffset \/ SelectLimit \/ SelectJoin \/ SelectLeftJoin
    \/ SelectRightJoin \/ SelectGroupBy \/ SelectOrderBy \/ SelectWhere
    \/ SelectHaving \/ SelectUnion \/ SelectUnionAll

(***************************************************************************)
(* Insert: one action per method.                                          *)
(***************************************************************************)
Rows ==
    { Object(<<Entry("a", Num(1)), Entry("b", Null)>>),
      Object(<<Entry("b", Str("x")), Entry("a", Num(2))>>),
      Object(<<Entry("a", Num(3))>>),
      Object(<<Entry("c", Num(5))>>),
      Object(<<Entry("a", Undefined), Entry("b", Num(4))>>),
      Str("row") }

RowLists ==
    { List(<<Object(<<Entry("a", Num(1)), Entry("b", Null)>>),
             Object(<<Entry("a", Null), Entry("b", Str("y"))>>)>>),
      List(<<Object(<<Entry("a", Num(3))>>),
             Object(<<Entry("a", Undefined)>>)>>),
      List(<<Object(<<Entry("a", Num(3))>>)>>),
      List(<<>>) }

InsertStep(call, r) ==
    /\ insert' = r.self
    /\ last' = Outcome(call, r, Undefined)
    /\ calls' = calls + 1
    /\ UNCHANGED <<pool, kind, select, update, delete, condition>>

InsertCanCall == kind = "Insert" /\ calls < MaxCalls

InsertReset == InsertCanCall /\ InsertStep("reset", Insert_reset(insert))

InsertBuilt(r) ==
    /\ insert' = r.self
    /\ last' = Outcome("build", r, Undefined)
    /\ UNCHANGED <<pool, kind, select, update, delete, condition, calls>>

InsertBuild == kind = "Insert" /\ InsertBuilt(Insert_build(insert))

InsertInto ==
    /\ InsertCanCall
    /\ \E table \in Tables \cup {Str("")} :
        InsertStep("into", Insert_into(insert, table))

InsertReturning ==
    /\ InsertCanCall
    /\ \E columns \in {<<Str("id")>>, <<>>} :
        InsertStep("returning", Insert_returning(insert, columns))

InsertRow ==
    /\ InsertCanCall
    /\ \E row \in Rows : InsertStep("row", Insert_row(insert, row))

InsertRows ==
    /\ InsertCanCall
    /\ \E rows \in RowLists : InsertStep("rows", Insert_rows(insert, rows))

NextInsert ==
    \/ InsertReset \/ InsertBuild \/ InsertInto \/ InsertReturning
    \/ InsertRow \/ InsertRows

(***************************************************************************)
(* Update: one action per method.                                          *)
(***************************************************************************)
Sets ==
    { Object(<<Entry("a", Str("x"))>>),
      Object(<<Entry("gender", Str("male")), Entry("city", Null)>>),
      Object(<<Entry("a", Undefined)>>),
      Str("a = 1") }

UpdateStep(call, r) ==
    /\ update' = r.self
    /\ last' = Outcome(call, r, update.condition)
    /\ calls' = calls + 1
    /\ UNCHANGED <<pool, kind, select, insert, delete, condition>>

UpdateCanCall == kind = "Update" /\ calls < MaxCalls

\* a call that sets the columns anew, from `row`
UpdateColumns(call, r, row) ==
    /\ update' = r.self
    /\ last' = [Outcome(call, r, update.condition) EXCEPT
                    !.row = IF r.ok THEN row ELSE last.row]
    /\ calls' = calls + 1
    /\ UNCHANGED <<pool, kind, select, insert, delete, condition>>

UpdateReset ==
    UpdateCanCall /\ UpdateColumns("reset", Update_reset(update), Undefined)

UpdateBuilt(r) ==
    /\ update' = r.self
    /\ last' = Outcome("build", r, update.condition)
    /\ UNCHANGED <<pool, kind, select, insert, delete, condition, calls>>

UpdateBuild == kind = "Update" /\ UpdateBuilt(Update_build(update))

UpdateSet ==
    /\ UpdateCanCall
    /\ \E row \in Sets : UpdateColumns("set", Update_set(update, row), row)

UpdateTable ==
    /\ UpdateCanCall
    /\ \E name \in Tables \cup {Str("")} :
        UpdateStep("table", Update_table(update, name))

UpdateWhere ==
    /\ UpdateCanCall
    /\ \E cb \in WhereCallbacks : UpdateStep("where", Update_where(update, cb))

UpdateAnd == UpdateCanCall /\ UpdateStep("and", Update_and(update))

UpdateOr == UpdateCanCall /\ UpdateStep("or", Update_or(update))

UpdateParen == UpdateCanCall /\ UpdateStep("paren", Update_paren(update))

UpdateOpen == UpdateCanCall /\ UpdateStep("open", Update_open(update))

UpdateClose == UpdateCanCall /\ UpdateStep("close", Update_close(update))

NextUpdate ==
    \/ UpdateReset \/ UpdateBuild \/ UpdateSet \/ UpdateTable \/ UpdateWhere
    \/ UpdateAnd \/ UpdateOr \/ UpdateParen \/ UpdateOpen \/ UpdateClose

(***************************************************************************)
(* Delete: one action per method.                                          *)
(***************************************************************************)
DeleteStep(call, r) ==
    /\ delete' = r.self
    /\ last' = Outcome(call, r, delete.condition)
    /\ calls' = calls + 1
    /\ UNCHANGED <<pool, kind, select, insert, update, condition>>

DeleteCanCall == kind = "Delete" /\ calls < MaxCalls

DeleteReset == DeleteCanCall /\ DeleteStep("reset", Delete_reset(delete))

DeleteBuilt(r) ==
    /\ delete' = r.self
    /\ last' = Outcome("build", r, delete.condition)
    /\ UNCHANGED <<pool, kind, select, insert, update, condition, calls>>

DeleteBuild == kind = "Delete" /\ DeleteBuilt(Delete_build(delete))

DeleteFrom ==
    /\ DeleteCanCall
    /\ \E table \in Tables \cup {Str("")} :
        DeleteStep("from", Delete_from(delete, table))

DeleteWhere ==
    /\ DeleteCanCall
    /\ \E cb \in WhereCallbacks : DeleteStep("where", Delete_where(delete, cb))

DeleteAnd == DeleteCanCall /\ DeleteStep("and", Delete_and(delete))

DeleteOr == DeleteCanCall /\ DeleteStep("or", Delete_or(delete))

DeleteParen == DeleteCanCall /\ DeleteStep("paren", Delete_paren(delete))

DeleteOpen == DeleteCanCall /\ DeleteStep("open", Delete_open(delete))

DeleteClose == DeleteCanCall /\ DeleteStep("close", Delete_close(delete))

NextDelete ==
    \/ DeleteReset \/ DeleteBuild \/ DeleteFrom \/ DeleteWhere \/ DeleteAnd
    \/ DeleteOr \/ DeleteParen \/ DeleteOpen \/ DeleteClose

(***************************************************************************)
(* Condition: one action per method, on a Condition owned by `select`.     *)
(* With kind "Condition" the calls that make the grammar of a predicate    *)
(* are explored on stacks of up to MaxStack fragments; with kind           *)
(* "Comparison" every method is explored, with every sort of operand, on   *)
(* stacks of up to MaxTerms fragments; with kind "DatePart" the date and   *)
(* time comparisons are explored on each driver.                           *)
(***************************************************************************)
StackBound == IF kind = "Condition" THEN MaxStack ELSE MaxTerms

ConditionCanCall ==
    /\ kind \in {"Condition", "Comparison", "DatePart"}
    /\ Len(condition.stack) < StackBound
    /\ Len(select.values) < MaxValues

ComparisonCanCall == kind = "Comparison" /\ ConditionCanCall

DatePartCanCall == kind \in {"Comparison", "DatePart"} /\ ConditionCanCall

\* the context of a call on the Condition under test
Here == Cx(condition, select.values, select.connection)

ConditionStep(call, cx) ==
    /\ condition' = cx.c
    /\ select' = [select EXCEPT !.values = cx.values]
    /\ last' = Outcome(call, [ok |-> cx.ok, text |-> ""], Undefined)
    /\ UNCHANGED <<pool, kind, insert, update, delete, calls>>

\* a comparison; history: args, the operands of a call that returned
ConditionCompared(call, cx, args) ==
    /\ condition' = cx.c
    /\ select' = [select EXCEPT !.values = cx.values]
    /\ last' = [Outcome(call, [ok |-> cx.ok, text |-> ""], Undefined) EXCEPT
                    !.args = IF cx.ok THEN args ELSE <<>>]
    /\ UNCHANGED <<pool, kind, insert, update, delete, calls>>

ConditionBuilt(r) ==
    /\ last' = Outcome("build", r, Undefined)
    /\ UNCHANGED <<pool, kind, select, insert, update, delete, condition, calls>>

\* strings and numbers, a reference, and operands that are neither
Operands ==
    IF kind = "Condition" THEN {Num(1), Null}
    ELSE {Num(1), Str("x"), Ref("b.x"), Null, Str("")}

\* the operands of a date-part comparison: the integers at both ends of its
\* range and next to them, a number that is no integer, a reference and a
\* string
Parts(low, high) ==
    {Num(low - 1), Num(low), Num(high), Num(high + 1), Frac(1), Ref("b.x"),
     Str("1")}

\* the ends the date-part comparisons are explored around; a year has no
\* upper end in the code
PartEnds ==
    [inYear   |-> <<1, 2024>>, inMonth  |-> <<1, 12>>, inDay    |-> <<1, 31>>,
     inHour   |-> <<0, 23>>,   inMinute |-> <<0, 59>>, inSecond |-> <<0, 59>>]

PartsOf(call) == Parts(PartEnds[call][1], PartEnds[call][2])

RawCalls ==
    IF kind = "Condition" THEN {<<Str("x > 0"), <<>>>>}
    ELSE {<<Str("x = ?"), <<Num(1)>>>>, <<Str("x IN (?, ?)"), <<Num(1), Null>>>>,
          <<Str(""), <<>>>>}

Operators == {EQUAL, MORE, Str("=")}

ConditionBuild ==
    /\ kind \in {"Condition", "Comparison", "DatePart"}
    /\ ConditionBuilt(Condition_build(condition))

ConditionRaw ==
    /\ ConditionCanCall
    /\ \E raw \in RawCalls :
        ConditionStep("raw", Condition_raw(Here, raw[1], raw[2]))

ConditionNot == ConditionCanCall /\ ConditionStep("not", Condition_not(Here))

ConditionOpen == ConditionCanCall /\ ConditionStep("open", Condition_open(Here))

ConditionClose ==
    ConditionCanCall /\ ConditionStep("close", Condition_close(Here))

ConditionParen ==
    ConditionCanCall /\ ConditionStep("paren", Condition_paren(Here))

ConditionAnd == ConditionCanCall /\ ConditionStep("and", Condition_and(Here))

ConditionOr == ConditionCanCall /\ ConditionStep("or", Condition_or(Here))

ConditionCol ==
    /\ ConditionCanCall
    /\ \E name \in {Str("a"), Str("")} :
        ConditionStep("col", Condition_col(Here, name))

ConditionInDate ==
    /\ DatePartCanCall
    /\ \E date \in {Str("2024-01-01"), Ref("b.x"), Num(1)} :
        ConditionCompared("inDate", Condition_inDate(Here, date), <<date>>)

ConditionInTime ==
    /\ DatePartCanCall
    /\ \E time \in {Str("10:00:00"), Ref("b.x"), Num(1)} :
        ConditionCompared("inTime", Condition_inTime(Here, time), <<time>>)

ConditionInYear ==
    /\ DatePartCanCall
    /\ \E year \in PartsOf("inYear") :
        ConditionCompared("inYear",
            Condition_inYear(Here, year),
            <<year>>)

ConditionInMonth ==
    /\ DatePartCanCall
    /\ \E month \in PartsOf("inMonth") :
        ConditionCompared("inMonth", Condition_inMonth(Here, month), <<month>>)

ConditionInDay ==
    /\ DatePartCanCall
    /\ \E day \in PartsOf("inDay") :
        ConditionCompared("inDay",
            Condition_inDay(Here, day),
            <<day>>)

ConditionInHour ==
    /\ DatePartCanCall
    /\ \E hour \in PartsOf("inHour") :
        ConditionCompared("inHour",
            Condition_inHour(Here, hour),
            <<hour>>)

ConditionInMinute ==
    /\ DatePartCanCall
    /\ \E minute \in PartsOf("inMinute") :
        ConditionCompared("inMinute",
            Condition_inMinute(Here, minute),
            <<minute>>)

ConditionInSecond ==
    /\ DatePartCanCall
    /\ \E second \in PartsOf("inSecond") :
        ConditionCompared("inSecond",
            Condition_inSecond(Here, second),
            <<second>>)

ConditionEqual ==
    /\ ConditionCanCall
    /\ \E value \in Operands :
        ConditionCompared("equal", Condition_equal(Here, value), <<value>>)

ConditionLessThan ==
    /\ ComparisonCanCall
    /\ \E value \in Operands :
        ConditionCompared("lessThan",
            Condition_lessThan(Here, value),
            <<value>>)

ConditionLessThanOrEqual ==
    /\ ComparisonCanCall
    /\ \E value \in Operands :
        ConditionCompared("lessThanOrEqual",
            Condition_lessThanOrEqual(Here, value),
            <<value>>)

ConditionGreaterThan ==
    /\ ComparisonCanCall
    /\ \E value \in Operands :
        ConditionCompared("greaterThan",
            Condition_greaterThan(Here, value),
            <<value>>)

ConditionGreaterThanOrEqual ==
    /\ ComparisonCanCall
    /\ \E value \in Operands :
        ConditionCompared("greaterThanOrEqual",
                      Condition_greaterThanOrEqual(Here, value), <<value>>)

ConditionBetween ==
    /\ ComparisonCanCall
    /\ \E start \in {Num(1), Ref("b.x"), Null}, end \in {Num(2), Ref("b.y"), Null} :
        ConditionCompared("between",
            Condition_between(Here, start, end),
            <<start, end>>)

ConditionIn ==
    /\ ComparisonCanCall
    /\ \E values \in {<<Num(1), Str("x")>>, <<Num(1), Ref("b.x"), Num(2)>>,
                      <<Num(1), Null>>, <<>>} :
        ConditionCompared("in", Condition_in(Here, values), values)

ConditionInSubquery ==
    /\ ComparisonCanCall
    /\ \E sub \in Subqueries \cup {Str("SELECT 1")} :
        ConditionStep("inSubquery", Condition_inSubquery(Here, sub))

ConditionLike ==
    /\ ComparisonCanCall
    /\ \E value \in {Str("%x%"), Ref("b.x"), Num(1)} :
        ConditionCompared("like", Condition_like(Here, value), <<value>>)

ConditionIsNull ==
    ComparisonCanCall /\ ConditionStep("isNull", Condition_isNull(Here))

ConditionExists ==
    /\ ComparisonCanCall
    /\ \E sub \in Subqueries \cup {Str("SELECT 1")} :
        ConditionStep("exists", Condition_exists(Here, sub))

ConditionAny ==
    /\ ComparisonCanCall
    /\ \E operator \in Operators, sub \in Subqueries \cup {Str("SELECT 1")} :
        ConditionStep("any", Condition_any(Here, operator, sub))

ConditionAll ==
    /\ ComparisonCanCall
    /\ \E operator \in Operators, sub \in Subqueries \cup {Str("SELECT 1")} :
        ConditionStep("all", Condition_all(Here, operator, sub))

NextCondition ==
    \/ ConditionBuild \/ ConditionRaw \/ ConditionNot \/ ConditionOpen
    \/ ConditionClose \/ ConditionParen \/ ConditionAnd \/ ConditionOr
    \/ ConditionCol \/ ConditionInDate \/ ConditionInTime \/ ConditionInYear
    \/ ConditionInMonth \/ ConditionInDay \/ ConditionInHour
    \/ ConditionInMinute \/ ConditionInSecond \/ ConditionEqual
    \/ ConditionLessThan \/ ConditionLessThanOrEqual \/ ConditionGreaterThan
    \/ ConditionGreaterThanOrEqual \/ ConditionBetween \/ ConditionIn
    \/ ConditionInSubquery \/ ConditionLike \/ ConditionIsNull
    \/ ConditionExists \/ ConditionAny \/ ConditionAll

(***************************************************************************)
(* The specifications: one per class, and Spec for all of them.            *)
(***************************************************************************)
(***************************************************************************)
(* Query.exec(), Select.count(), Select.paginate() and the connection.  A  *)
(* promise is a record of the operation that made it, its state, the value *)
(* it resolved with or the error it rejected with, the query of the        *)
(* connection or the promise it waits for, and the constants of its        *)
(* closure: `columns` for count(); `page`, `items` and `count` for         *)
(* paginate().  `before` is a history field: the column list of the Select *)
(* when count() was called.  The states of the promise of count() follow   *)
(* connection.query(..).then(..).catch(..): "sent", then "fulfilled" or    *)
(* "failed" as the connection settles the query, "threw" when the then     *)
(* callback has thrown, and "resolved" or "rejected" once resolve or       *)
(* reject has been called.  Those of paginate() follow its two chains:     *)
(* "counting" while it waits for count(), "reading" while it waits for     *)
(* exec(), "threw" when its callback has thrown.  pool.answers is a        *)
(* history field: what the connection settled each query with.             *)
(***************************************************************************)
Promise(op, state, before) ==
    [op |-> op, state |-> state, before |-> before, columns |-> before,
     rows |-> <<>>, value |-> Undefined, query |-> 0, on |-> 0,
     page |-> 0, items |-> 0, count |-> Undefined, args |-> <<>>,
     during |-> {}]

\* an error, by name
Failure(name) == [t |-> "error", n |-> 0, s |-> name]

\* this.connection.query(query, values)
Connection_query(p, text, values, promise) ==
    [queries |-> Append(p.queries, [text |-> text, values |-> values]),
     answers |-> Append(p.answers, [state |-> "pending", value |-> Undefined]),
     promises |-> Append(p.promises,
                         [promise EXCEPT !.query = Len(p.queries) + 1])]

\* exec() that calls the connection whatever build() did
Query_exec_unguarded(p, built, values) ==
    Connection_query(p, built.text, values, Promise("exec", "sent", Undefined))

\* exec(), given what this.get.query() did: when build() throws, exec()
\* throws before the connection is called
Query_exec(p, built, values) ==
    IF ~built.ok THEN p
    ELSE Connection_query(p, built.text, values,
                          Promise("exec", "sent", Undefined))

\* this.state.columns = ['COUNT(*) AS count']
CountColumns == Array(<<"COUNT(*) AS count">>)

\* the executor of count() up to the arguments of connection.query(): the
\* Select it leaves, whether it threw, and the text of the count statement
Select_count(s) ==
    IF ~isFullStr(s.table) THEN Raise(s)
    ELSE Select_build([s EXCEPT !.columns = CountColumns], FALSE)

\* history: the promises of count() that have not settled
Unsettled(p) ==
    {i \in 1..Len(p.promises) :
        /\ p.promises[i].op = "count"
        /\ p.promises[i].state \notin {"resolved", "rejected"}}

\* the rest of the executor: a throw of the executor rejects the promise
\* that count() returns
Counting(p, executed, before) ==
    IF ~executed.ok
    THEN [p EXCEPT !.promises =
            Append(@, [Promise("count", "rejected", before) EXCEPT
                            !.value = Failure("QueryError")])]
    ELSE Connection_query(p, executed.text, executed.self.values,
                          [Promise("count", "sent", before) EXCEPT
                                !.during = Unsettled(p)])

\* .then((r) => { this.state.columns = columns; resolve(r[0].count); })
Count_then(s, promise) ==
    [self |-> [s EXCEPT !.columns = promise.columns],
     ok |-> promise.rows # <<>>, text |-> ""]

\* .catch((e) => { this.state.columns = columns; reject(e); })
Count_catch(s, promise) == Return([s EXCEPT !.columns = promise.columns])

\* a page of 0 kept
PageOf_zeroKept(page) == IF ~isInt(page) \/ page.n < 0 THEN 1 ELSE page.n

\* if (!isInt(page) || page < 1) page = 1;
PageOf(page) == IF ~isInt(page) \/ page.n < 1 THEN 1 ELSE page.n

\* items: number = 10; if (!isInt(items) || items < 1) items = 10;
ItemsOf(items) == IF ~isInt(items) \/ items.n < 1 THEN 10 ELSE items.n

\* the promise paginate() returns, waiting for the one this.count() returned,
\* which is the last of p; history: args, the arguments of the call
Select_paginate(p, page, items) ==
    [p EXCEPT !.promises =
        Append(@, [Promise("paginate", "counting", Undefined) EXCEPT
                        !.on = Len(p.promises),
                        !.args = <<page, items>>,
                        !.page = PageOf(page),
                        !.items = ItemsOf(items)])]

\* const offset = (page - 1) * items; this.limit(items).offset(offset);
Paginate_limit(s, promise) ==
    Select_offset(Select_limit(s, Num(promise.items)).self,
                  Num((promise.page - 1) * promise.items)).self

\* Math.floor in the place of Math.ceil
Ceil_floor(total, items) == total \div items

\* Math.ceil(total / items), for a total >= 0 and items >= 1
Ceil(total, items) == (total + items - 1) \div items

\* the object the promise of paginate() resolves with
Pagination(result, page, items, count) ==
    [t |-> "pagination",
     result |-> result,
     page |-> [current |-> page,
               prev |-> IF page - 1 = 0 THEN Undefined ELSE Num(page - 1),
               next |-> IF page < Ceil(count.n, items) THEN Num(page + 1)
                        ELSE Undefined,
               items |-> items],
     total |-> [pages |-> Ceil(count.n, items), items |-> count.n]]

(***************************************************************************)
(* exec(), count() and paginate(): one action per method, per callback of  *)
(* count() and of paginate(), and per way the connection settles a query.  *)
(***************************************************************************)
\* exec(), count() and paginate() are calls as the clause calls are
CanQuery == calls < MaxCalls /\ Idle

SelectExecuted(r) ==
    /\ select' = r.self
    /\ pool' = Query_exec(pool, r, r.self.values)
    /\ last' = Outcome("exec", r, select.where)
    /\ calls' = calls + 1
    /\ UNCHANGED <<kind, insert, update, delete, condition>>

SelectExec ==
    kind = "Select" /\ CanQuery /\ SelectExecuted(Select_build(select, FALSE))

InsertExecuted(r) ==
    /\ insert' = r.self
    /\ pool' = Query_exec(pool, r, Flat(r.self.values))
    /\ last' = Outcome("exec", r, Undefined)
    /\ calls' = calls + 1
    /\ UNCHANGED <<kind, select, update, delete, condition>>

InsertExec == kind = "Insert" /\ CanQuery /\ InsertExecuted(Insert_build(insert))

UpdateExecuted(r) ==
    /\ update' = r.self
    /\ pool' = Query_exec(pool, r, r.self.values)
    /\ last' = Outcome("exec", r, update.condition)
    /\ calls' = calls + 1
    /\ UNCHANGED <<kind, select, insert, delete, condition>>

UpdateExec == kind = "Update" /\ CanQuery /\ UpdateExecuted(Update_build(update))

DeleteExecuted(r) ==
    /\ delete' = r.self
    /\ pool' = Query_exec(pool, r, r.self.values)
    /\ last' = Outcome("exec", r, delete.condition)
    /\ calls' = calls + 1
    /\ UNCHANGED <<kind, select, insert, update, condition>>

DeleteExec == kind = "Delete" /\ CanQuery /\ DeleteExecuted(Delete_build(delete))

\* count() returns a promise whatever the executor does
SelectCounted(r) ==
    /\ select' = r.self
    /\ pool' = Counting(pool, r, select.columns)
    /\ last' = Outcome("count", Result(r.self, r.text), select.where)
    /\ calls' = calls + 1
    /\ UNCHANGED <<kind, insert, update, delete, condition>>

SelectCount == kind = "Select" /\ CanQuery /\ SelectCounted(Select_count(select))

\* the page and the items paginate() is called with
Pages ==
    { <<Num(2), Num(2)>>, <<Num(0), Num(2)>>, <<Num(5), Undefined>>,
      <<Frac(1), Num(0)>> }

\* paginate() calls count() and returns a promise
SelectPaginated(r, page, items) ==
    /\ select' = r.self
    /\ pool' = Select_paginate(Counting(pool, r, select.columns), page, items)
    /\ last' = Outcome("paginate", Result(r.self, r.text), select.where)
    /\ calls' = calls + 1
    /\ UNCHANGED <<kind, insert, update, delete, condition>>

\* paginate() is called when the promises of the earlier calls of
\* paginate() have settled
SelectPaginate ==
    /\ kind = "Select"
    /\ CanQuery
    /\ \A i \in 1..Len(pool.promises) :
            pool.promises[i].op = "paginate" =>
                pool.promises[i].state \in {"resolved", "rejected"}
    /\ \E page \in Pages :
        SelectPaginated(Select_count(select), page[1], page[2])

\* the results a count statement is answered with: one row that holds a
\* count, or no row; the result any other statement is answered with; and
\* the error the connection rejects with
Counts == {<<Num(0)>>, <<Num(3)>>, <<>>}

Results(text) ==
    IF StartsWith(text, "SELECT COUNT(*) AS count ") THEN Counts
    ELSE {<<Str("row")>>}

Errors == {Failure("E1")}

\* exec() that catches the rejection of the connection and rejects with an
\* error of its own
Answered_wrapped(promise, state, rows, error) ==
    IF promise.op = "exec"
    THEN [promise EXCEPT
            !.state = IF state = "fulfilled" THEN "resolved" ELSE "rejected",
            !.value = IF state = "fulfilled" THEN List(rows)
                      ELSE Failure("QueryError")]
    ELSE [promise EXCEPT
            !.state = IF state = "fulfilled" THEN "fulfilled" ELSE "failed",
            !.rows = rows,
            !.value = IF state = "fulfilled" THEN Undefined ELSE error]

\* what the connection settling a query makes of a promise made for it: the
\* promise of exec() is that of the connection, that of count() waits for
\* its callbacks
Answered(promise, state, rows, error) ==
    IF promise.op = "exec"
    THEN [promise EXCEPT
            !.state = IF state = "fulfilled" THEN "resolved" ELSE "rejected",
            !.value = IF state = "fulfilled" THEN List(rows) ELSE error]
    ELSE [promise EXCEPT
            !.state = IF state = "fulfilled" THEN "fulfilled" ELSE "failed",
            !.rows = rows,
            !.value = IF state = "fulfilled" THEN Undefined ELSE error]

Settled(q, state, rows, error) ==
    /\ pool' = [pool EXCEPT
            !.answers[q] =
                [state |-> state,
                 value |-> IF state = "fulfilled" THEN List(rows) ELSE error],
            !.promises =
                [j \in 1..Len(pool.promises) |->
                    IF pool.promises[j].query = q
                    THEN Answered(pool.promises[j], state, rows, error)
                    ELSE pool.promises[j]]]
    /\ UNCHANGED <<kind, select, insert, update, delete, condition, last,
                   calls>>

ConnectionResolve ==
    \E q \in 1..Len(pool.queries) :
      \E rows \in Results(pool.queries[q].text) :
        /\ Idle
        /\ pool.answers[q].state = "pending"
        /\ Settled(q, "fulfilled", rows, Undefined)

ConnectionReject ==
    \E q \in 1..Len(pool.queries), error \in Errors :
        /\ Idle
        /\ pool.answers[q].state = "pending"
        /\ Settled(q, "rejected", <<>>, error)

\* a then callback whose throw no catch callback follows: .catch() put
\* before .then() in the chain
Called_uncaught(i, r, state, value) ==
    /\ select' = r.self
    /\ pool' = [pool EXCEPT
            !.promises[i].state = IF state = "threw" THEN "unhandled" ELSE state,
            !.promises[i].value = value]
    /\ UNCHANGED <<kind, insert, update, delete, condition, last, calls>>

\* a callback of count() has run: the Select it leaves, and what became of
\* the promise
Called(i, r, state, value) ==
    /\ select' = r.self
    /\ pool' = [pool EXCEPT !.promises[i].state = state,
                            !.promises[i].value = value]
    /\ UNCHANGED <<kind, insert, update, delete, condition, last, calls>>

CountThen ==
    \E i \in 1..Len(pool.promises) :
        /\ pool.promises[i].op = "count"
        /\ pool.promises[i].state = "fulfilled"
        /\ IF Count_then(select, pool.promises[i]).ok
           THEN Called(i, Count_then(select, pool.promises[i]), "resolved",
                       pool.promises[i].rows[1])
           ELSE Called(i, Count_then(select, pool.promises[i]), "threw",
                       Failure("TypeError"))

CountCatch ==
    \E i \in 1..Len(pool.promises) :
        /\ pool.promises[i].op = "count"
        /\ pool.promises[i].state \in {"failed", "threw"}
        /\ Called(i, Count_catch(select, pool.promises[i]), "rejected",
                  pool.promises[i].value)

\* the promise the i-th promise waits for
Awaited(i) == pool.promises[pool.promises[i].on]

\* the then callback of this.count() in paginate(): limit and offset are
\* set and exec() is called; when exec() throws, the callback throws
Reading(i, s, built) ==
    /\ select' = s
    /\ pool' =
        IF ~built.ok
        THEN [pool EXCEPT !.promises[i].state = "threw",
                          !.promises[i].value = Failure("QueryError")]
        ELSE [Query_exec(pool, built, s.values) EXCEPT
                    !.promises[i].state = "reading",
                    !.promises[i].on = Len(pool.promises) + 1,
                    !.promises[i].count = Awaited(i).value]
    /\ UNCHANGED <<kind, insert, update, delete, condition, last, calls>>

Limited(i, s) == Reading(i, s, Select_build(s, FALSE))

PaginateThen ==
    \E i \in 1..Len(pool.promises) :
        /\ pool.promises[i].op = "paginate"
        /\ pool.promises[i].state = "counting"
        /\ Awaited(i).state = "resolved"
        /\ Limited(i, Paginate_limit(select, pool.promises[i]))

\* paginate() rejecting with an error of its own
Finished_ownError(i, state, value) ==
    /\ pool' = [pool EXCEPT
            !.promises[i].state = state,
            !.promises[i].value = IF state = "rejected"
                                  THEN Failure("PaginateError") ELSE value]
    /\ UNCHANGED <<kind, select, insert, update, delete, condition, last,
                   calls>>

\* resolve(...) and reject(...) of the promise paginate() returned
Finished(i, state, value) ==
    /\ pool' = [pool EXCEPT !.promises[i].state = state,
                            !.promises[i].value = value]
    /\ UNCHANGED <<kind, select, insert, update, delete, condition, last,
                   calls>>

\* .catch(reject) of the chain of this.count()
PaginateCatch ==
    \E i \in 1..Len(pool.promises) :
        /\ pool.promises[i].op = "paginate"
        /\ \/ /\ pool.promises[i].state = "counting"
              /\ Awaited(i).state = "rejected"
              /\ Finished(i, "rejected", Awaited(i).value)
           \/ /\ pool.promises[i].state = "threw"
              /\ Finished(i, "rejected", pool.promises[i].value)

\* the then callback of this.exec() in paginate()
PaginateResolve ==
    \E i \in 1..Len(pool.promises) :
        /\ pool.promises[i].op = "paginate"
        /\ pool.promises[i].state = "reading"
        /\ Awaited(i).state = "resolved"
        /\ Finished(i, "resolved",
                    Pagination(Awaited(i).value, pool.promises[i].page,
                               pool.promises[i].items, pool.promises[i].count))

\* .catch(reject) of the chain of this.exec()
PaginateReject ==
    \E i \in 1..Len(pool.promises) :
        /\ pool.promises[i].op = "paginate"
        /\ pool.promises[i].state = "reading"
        /\ Awaited(i).state = "rejected"
        /\ Finished(i, "rejected", Awaited(i).value)

NextQuery ==
    \/ SelectExec \/ InsertExec \/ UpdateExec \/ DeleteExec
    \/ SelectCount \/ SelectPaginate \/ ConnectionResolve \/ ConnectionReject
    \/ CountThen \/ CountCatch
    \/ PaginateThen \/ PaginateCatch \/ PaginateResolve \/ PaginateReject

Next ==
    \/ NextSelect \/ NextInsert \/ NextUpdate \/ NextDelete \/ NextCondition
    \/ NextQuery

Spec == Init /\ [][Next]_vars

InitSelect == Init /\ kind = "Select"

SpecSelect == InitSelect /\ [][NextSelect]_vars

InitInsert == Init /\ kind = "Insert"

SpecInsert == InitInsert /\ [][NextInsert]_vars

InitUpdate == Init /\ kind = "Update"

SpecUpdate == InitUpdate /\ [][NextUpdate]_vars

InitDelete == Init /\ kind = "Delete"

SpecDelete == InitDelete /\ [][NextDelete]_vars

InitWhere == Init /\ kind \in {"Select", "Update", "Delete"}

SpecWhere == InitWhere /\ [][NextSelect \/ NextUpdate \/ NextDelete]_vars

InitQuery == Init /\ kind \in {"Select", "Insert", "Update", "Delete"}

\* the statements that exec(), count() and paginate() are made on: a Select
\* built with from(), col(), open() and where(), and every Insert, Update and Delete
NextQueried ==
    \/ SelectFrom \/ SelectCol \/ SelectOpen \/ SelectWhere
    \/ NextInsert \/ NextUpdate \/ NextDelete

SpecQuery == InitQuery /\ [][NextQuery \/ NextQueried]_vars

InitCondition == Init /\ kind \in {"Condition", "Comparison"}

SpecCondition == InitCondition /\ [][NextCondition]_vars

InitDatePart == Init /\ kind = "DatePart"

\* the date and time comparisons, on a column, negated or not
NextDatePart ==
    \/ ConditionBuild \/ ConditionCol \/ ConditionNot
    \/ ConditionInDate \/ ConditionInTime \/ ConditionInYear
    \/ ConditionInMonth \/ ConditionInDay \/ ConditionInHour
    \/ ConditionInMinute \/ ConditionInSecond

SpecDatePart == InitDatePart /\ [][NextDatePart]_vars

\* count() and paginate() on a Select whose table is set or not and that has
\* an open parenthesis or not, with the connection and the callbacks
NextSettle ==
    \/ SelectFrom \/ SelectOpen \/ SelectCount \/ SelectPaginate
    \/ ConnectionResolve \/ ConnectionReject
    \/ CountThen \/ CountCatch
    \/ PaginateThen \/ PaginateCatch \/ PaginateResolve \/ PaginateReject

\* a callback of a promise that can run does run: the job queue of the
\* engine is emptied
Callbacks ==
    \/ CountThen \/ CountCatch
    \/ PaginateThen \/ PaginateCatch \/ PaginateResolve \/ PaginateReject

\* the connection settles the queries it is handed; the calls on the
\* builder may stop at any time
SpecSettle ==
    /\ InitSelect
    /\ [][NextSettle]_vars
    /\ WF_vars(Callbacks)
    /\ WF_vars(ConnectionResolve \/ ConnectionReject)

(***************************************************************************)
(* Properties.                                                             *)
(***************************************************************************)
Statements == {"Select", "Insert", "Update", "Delete"}

\* the last call was a build() that returned a text, and no call before it
\* has thrown
Built == last.call = "build" /\ last.ok /\ last.clean

\* C1: whenever build() succeeds on a Select, Insert, Update or Delete (no
\* raw fragment is used by the statements explored), the number of `?` in
\* the returned text equals the length of the flattened Value Sink read
\* right after that build().
C1_PlaceholdersMatchValues ==
    (kind \in Statements /\ Built) =>
        CountChar(last.text, "?") = Len(FlatValues)

\* C2: whenever build() succeeds on a Select, the Value Sink is, entry by
\* entry, the values bound for the `?` of the text counted left to right.
C2_ValuesInPlaceholderOrder ==
    (kind = "Select" /\ Built) => select.values = SelectBound(select)

\* C3: a build() that directly follows a successful build() on the same
\* Select, Insert, Update or Delete returns the same text and leaves the
\* Value Sink as the first build() left it.
C3_BuildIdempotent ==
    [][(kind \in Statements /\ Built /\ last'.call = "build") =>
            /\ last'.ok
            /\ last'.text = last.text
            /\ FlatValues' = FlatValues]_vars

\* C4: after reset() on a Select every state field and the Value Sink have
\* their construction-time defaults, and from(t).build() then returns
\* `SELECT * FROM t;`.
C4_SelectResetDefaults ==
    (kind = "Select" /\ last.call = "reset") =>
        /\ select = NewSelect(select.connection)
        /\ Select_build(Select_from(select, Str("t")).self, FALSE).ok
        /\ Select_build(Select_from(select, Str("t")).self, FALSE).text
             = "SELECT * FROM t;"

\* C5: after reset() on an Insert the table, the column list, the
\* row-vectors and the returning-column list have their construction-time
\* defaults.
C5_InsertResetDefaults ==
    (kind = "Insert" /\ last.call = "reset") =>
        insert = NewInsert(insert.connection)

\* the WHERE Condition of the statement under test, and the results of the
\* statement-level calls on it
WhereOf ==
    CASE kind = "Select" -> select.where
      [] kind = "Update" -> update.condition
      [] kind = "Delete" -> delete.condition
      [] OTHER           -> Undefined

AndNow ==
    CASE kind = "Select" -> Select_and(select).ok
      [] kind = "Update" -> Update_and(update).ok
      [] OTHER           -> Delete_and(delete).ok

OrNow ==
    CASE kind = "Select" -> Select_or(select).ok
      [] kind = "Update" -> Update_or(update).ok
      [] OTHER           -> Delete_or(delete).ok

CloseNow ==
    CASE kind = "Select" -> Select_close(select).ok
      [] kind = "Update" -> Update_close(update).ok
      [] OTHER           -> Delete_close(delete).ok

\* the Condition and the Value Sink that where(cb) leaves
WhereNow(cb) ==
    CASE kind = "Select" ->
            <<Select_where(select, cb).self.where,
              Select_where(select, cb).self.values>>
      [] kind = "Update" ->
            <<Update_where(update, cb).self.condition,
              Update_where(update, cb).self.values>>
      [] OTHER ->
            <<Delete_where(delete, cb).self.condition,
              Delete_where(delete, cb).self.values>>

\* the same on a statement that has just been constructed
WhereNew(cb) ==
    <<Delete_where(NewDelete("MySQL"), cb).self.condition,
      Delete_where(NewDelete("MySQL"), cb).self.values>>

\* C6: after reset() on a Select, Update or Delete the WHERE Condition is
\* gone and the Value Sink is empty, the statement-level and(), or() and
\* close() fail, and a where() made next builds the Condition and the values
\* it builds on a new statement: nothing of the earlier Condition is left.
C6_ResetDiscardsCondition ==
    (kind \in {"Select", "Update", "Delete"} /\ last.call = "reset") =>
        /\ WhereOf = Undefined
        /\ kind = "Select" => select.having = Undefined /\ select.joins = <<>>
        /\ FlatValues = <<>>
        /\ ~AndNow /\ ~OrNow /\ ~CloseNow
        /\ \A cb \in WhereCallbacks : WhereNow(cb) = WhereNew(cb)

\* a reset() made on a statement whose Condition had tokens, an open
\* parenthesis, the negation flag and an Active Column
C6_Witness ==
    /\ kind \in {"Select", "Update", "Delete"}
    /\ last.call = "reset"
    /\ last.where # Undefined
    /\ last.where.stack # <<>>
    /\ last.where.opened > 0
    /\ last.where.negate
    /\ last.where.column # Undefined

\* the logical operators as and() and or() push them
Ops == {" AND ", " OR "}

\* the seven forbidden patterns, on the tokens of the stack
Forbidden(stack) ==
    \/ \E i \in 1..Len(stack) - 1 : stack[i] = "(" /\ stack[i + 1] \in Ops
    \/ \E i \in 1..Len(stack) - 1 : stack[i] \in Ops /\ stack[i + 1] = ")"
    \/ \E i \in 1..Len(stack) - 1 : stack[i] \in Ops /\ stack[i + 1] \in Ops
    \/ \E i \in 1..Len(stack) - 1 : stack[i] = "(" /\ stack[i + 1] = ")"
    \/ stack # <<>> /\ stack[Len(stack)] \in Ops
    \/ stack # <<>> /\ stack[1] \in Ops
    \/ stack = <<>>

\* the texts the raw() calls explored push
RawTexts == {"x > 0", "x = ?", "x IN (?, ?)"}

RawFree(stack) == \A i \in 1..Len(stack) : stack[i] \notin RawTexts

\* C7: on a Condition made by col, comparison, and, or, open, close and paren
\* calls, build() succeeds if and only if the net parenthesis count is zero
\* and none of the seven forbidden patterns occurs, and then returns the
\* joined, trimmed text of the tokens.
C7_BuildSucceedsIff ==
    (kind \in {"Condition", "Comparison"} /\ last.call = "build"
        /\ RawFree(condition.stack)) =>
        /\ last.ok <=> (condition.opened = 0 /\ ~Forbidden(condition.stack))
        /\ last.ok => last.text = Trim(Join(condition.stack, ""))

\* the terminal comparisons
Comparisons ==
    {"inDate", "inTime", "inYear", "inMonth", "inDay", "inHour", "inMinute",
     "inSecond", "equal", "lessThan", "lessThanOrEqual", "greaterThan",
     "greaterThanOrEqual", "between", "in", "inSubquery", "like", "isNull",
     "exists", "any", "all"}

\* the step is a terminal comparison that succeeded: it pushed one fragment
Compared ==
    /\ kind \in {"Condition", "Comparison"}
    /\ last'.call \in Comparisons
    /\ last'.ok

Negated(c) == StartsWith(c.stack[Len(c.stack)], "NOT ")

C9_NotNeedsComparisonNext ==
    [][(Compared /\ last.ok
            /\ last.call \in {"and", "or", "open", "close", "paren", "raw"})
            => ~Negated(condition')]_vars

\* the step is the terminal comparison `call`, made with no Active Column
WithoutColumn(calls_) ==
    /\ kind \in {"Condition", "Comparison"}
    /\ last'.call \in calls_
    /\ condition.column = Undefined

\* the call threw and pushed neither a token nor a value
Refused == ~last'.ok /\ condition' = condition /\ select' = select

\* C10 as stated: every terminal comparison, exists included, fails and
\* pushes neither a token nor a value when no Active Column has been set.
C10_AllNeedColumn == [][WithoutColumn(Comparisons) => Refused]_vars

\* C10: every terminal comparison other than exists fails and pushes neither
\* a token nor a value when no Active Column has been set.
C10_AllButExistsNeedColumn ==
    [][WithoutColumn(Comparisons \ {"exists"}) => Refused]_vars

\* a comparison other than exists was refused on a Condition with no Active
\* Column
C10_Witness ==
    /\ kind = "Comparison"
    /\ last.call \in Comparisons \ {"exists"}
    /\ ~last.ok
    /\ condition.column = Undefined
    /\ condition.stack = <<>>
    /\ select.values = <<>>

\* the comparisons that take a nested Select
SubqueryCalls == {"inSubquery", "exists", "any", "all"}

\* the Select a subquery function leaves, and the statement it builds when
\* built on its own
Nested(sub) == RunSelect(Return(NewSelect(select.connection)), sub.ops)

NestedStatement(sub) == Select_build(Nested(sub).self, FALSE)

\* the step pushed one fragment that ends with the text of the nested
\* statement, less its terminator, in parentheses, and appended the nested
\* Select's values after the values the owner had
Spliced(sub) ==
    /\ Nested(sub).ok
    /\ NestedStatement(sub).ok
    /\ EndsWith(NestedStatement(sub).text, ";")
    /\ Len(condition'.stack) = Len(condition.stack) + 1
    /\ SubSeq(condition'.stack, 1, Len(condition.stack)) = condition.stack
    /\ EndsWith(condition'.stack[Len(condition'.stack)],
                "(" \o SubSeq(NestedStatement(sub).text, 1,
                              Len(NestedStatement(sub).text) - 1) \o ")")
    /\ select'.values = select.values \o Nested(sub).self.values

KeySet(row) == {row.entries[i].key : i \in 1..Len(row.entries)}

ColumnSet(q) == {q.columns.items[i].s : i \in 1..Len(q.columns.items)}

\* every value of the row is a string, a number or null
ValidValues(row) ==
    \A i \in 1..Len(row.entries) :
        \/ isNull(row.entries[i].value)
        \/ isStr(row.entries[i].value)
        \/ isNum(row.entries[i].value)

\* C12: once the columns of an Insert are established, row() with a row
\* object whose key set differs from them in length or names fails and
\* appends no row-vector, and row() with a row object of valid values whose
\* key set is the same, in whatever key order, succeeds and appends one
\* row-vector.
C12_RowKeysMatchColumns ==
    (kind = "Insert" /\ isArr(insert.columns)) =>
        \A row \in Rows :
            isObj(row) =>
                IF KeySet(row) = ColumnSet(insert)
                THEN ValidValues(row) =>
                        /\ Insert_row(insert, row).ok
                        /\ Len(Insert_row(insert, row).self.values)
                              = Len(insert.values) + 1
                ELSE /\ ~Insert_row(insert, row).ok
                     /\ Insert_row(insert, row).self.values = insert.values

\* a second row whose keys come in the other order was accepted
C12_Witness ==
    /\ kind = "Insert"
    /\ last.call = "row"
    /\ last.ok
    /\ insert.columns = List(<<Str("a"), Str("b")>>)
    /\ Len(insert.values) = 2
    /\ insert.values[1] = <<Num(1), Null>>
    /\ Str("x") \in {insert.values[2][i] : i \in 1..2}

\* the value a row object holds under a key
ValueOf(row, key) ==
    LET i == CHOOSE i \in 1..Len(row.entries) : row.entries[i].key = key
    IN  row.entries[i].value

\* the values of a row object in the order of the established columns
InColumnOrder(q, row) ==
    [i \in 1..Len(q.columns.items) |-> ValueOf(row, q.columns.items[i].s)]

\* C13: the row-vector a successful row() appends lists the values of the
\* row in the order of the established columns, so each value sits under
\* its own column, whatever the key order of the row object (stated for
\* an Insert none of whose calls has thrown).
C13_RowVectorInColumnOrder ==
    (kind = "Insert" /\ last.clean) =>
        \A row \in Rows :
            Insert_row(insert, row).ok =>
                Insert_row(insert, row).self.values
                    = Append(insert.values,
                             InColumnOrder(Insert_row(insert, row).self, row))

\* the marks of the row-vectors from the i-th on, comma-separated: NULL at
\* the null positions and ? at the others
RECURSIVE Marks(_, _, _)
Marks(rows, i, j) ==
    IF i > Len(rows) THEN ""
    ELSE IF j > Len(rows[i])
    THEN ")" \o (IF i < Len(rows) THEN ", " ELSE "") \o Marks(rows, i + 1, 1)
    ELSE (IF j = 1 THEN "(" ELSE ", ")
            \o (IF rows[i][j] = Null THEN "NULL" ELSE "?")
            \o Marks(rows, i, j + 1)

\* the names of a column list, comma-separated, from the i-th on
RECURSIVE Names(_, _)
Names(columns, i) ==
    IF i > Len(columns) THEN ""
    ELSE columns[i].s \o (IF i < Len(columns) THEN ", " ELSE "")
            \o Names(columns, i + 1)

\* the non-null values of a sequence, in order
RECURSIVE NonNull(_)
NonNull(values) ==
    IF values = <<>> THEN <<>>
    ELSE (IF Head(values) = Null THEN <<>> ELSE <<Head(values)>>)
            \o NonNull(Tail(values))

\* an Insert that has a table, columns and at least one row-vector
InsertComplete(q) ==
    /\ isFullStr(q.table)
    /\ isArr(q.columns)
    /\ q.values # <<>>

\* C14: build() of an Insert that has a table, columns and at least one
\* row-vector renders the row-vectors in insertion order, NULL at exactly
\* the null positions and ? at the others, and leaves as flattened Value
\* Sink exactly the non-null values in row then column order; build() of an
\* Insert whose table, columns or rows are missing fails.  Stated for every
\* build(); on the first one the row-vectors are those row() appended.
C14_InsertBuildRendersRows ==
    [][(kind = "Insert" /\ last'.call = "build") =>
            IF InsertComplete(insert)
            THEN /\ last'.ok
                 /\ last'.text =
                        "INSERT INTO " \o insert.table.s
                            \o " (" \o Names(insert.columns.items, 1) \o ")"
                            \o " VALUES " \o Marks(insert.values, 1, 1)
                            \o (IF insert.returnings = Undefined THEN ""
                                ELSE " RETURNING "
                                        \o Names(insert.returnings.items, 1))
                            \o ";"
                 /\ Flat(insert'.values) = NonNull(Flat(insert.values))
                 /\ Len(insert'.values) = Len(insert.values)
            ELSE ~last'.ok /\ insert' = insert]_vars

\* a first build() rendered two rows with a null in each
C14_Witness ==
    /\ kind = "Insert"
    /\ Built
    /\ last.text = "INSERT INTO t (a, b) VALUES (?, NULL), (NULL, ?);"
    /\ insert.values = <<<<Num(1)>>, <<Str("y")>>>>

\* the SET list of a row object from its i-th entry on: the keys in key
\* order, `= NULL` for the null values and `= ?` for the others
RECURSIVE Assignments(_, _)
Assignments(row, i) ==
    IF i > Len(row.entries) THEN ""
    ELSE row.entries[i].key
            \o (IF row.entries[i].value = Null THEN " = NULL" ELSE " = ?")
            \o (IF i < Len(row.entries) THEN ", " ELSE "")
            \o Assignments(row, i + 1)

\* an Update that has a table, columns, values and a Condition
UpdateComplete(q) ==
    /\ isFullStr(q.table)
    /\ q.columns # <<>>
    /\ q.values # <<>>
    /\ q.condition # Undefined

\* C15: build() of an Update fails unless a table, columns, values and a
\* Condition are all present; a build() that returns a text lists after SET
\* the columns in the key order of the row given to set(), `col = NULL` for
\* exactly its null values and `col = ?` for the others, and leaves no null
\* in the Value Sink (stated for an Update none of whose calls has thrown).
C15_UpdateBuildRendersSet ==
    [][(kind = "Update" /\ last.clean /\ last'.call = "build") =>
            /\ ~UpdateComplete(update) => ~last'.ok
            /\ last'.ok =>
                /\ UpdateComplete(update)
                /\ StartsWith(last'.text,
                              "UPDATE " \o update.table.s \o " SET "
                                  \o Assignments(last.row, 1) \o " WHERE ")
                /\ \A i \in 1..Len(update'.values) : update'.values[i] # Null
      ]_vars

\* the text holds ` WHERE `, then a predicate that is not blank, then the
\* terminator
HasPredicate(text) ==
    \E i \in 1..Len(text) :
        /\ HasAt(text, i, " WHERE ")
        /\ EndsWith(text, ";")
        /\ Trim(SubSeq(text, i + Len(" WHERE "), Len(text) - 1)) # ""

\* C16: build() of a Delete or an Update that has no table or no Condition
\* fails, and every text these build() return holds ` WHERE ` followed by a
\* non-empty predicate and the terminator.
C16_MandatoryWhere ==
    [][(kind \in {"Update", "Delete"} /\ last'.call = "build") =>
            /\ (kind = "Delete"
                    /\ (~isFullStr(delete.table) \/ delete.condition = Undefined))
                  => ~last'.ok
            /\ (kind = "Update"
                    /\ (~isFullStr(update.table) \/ update.condition = Undefined))
                  => ~last'.ok
            /\ last'.ok => HasPredicate(last'.text)]_vars

\* a Delete with a table and a WHERE comparison was built
C16_Witness ==
    /\ kind = "Delete"
    /\ Built
    /\ last.text = "DELETE FROM t WHERE id = ?;"

\* a Condition as `new Condition(this)` leaves it, in a context of its own
Fresh == Cx(NewCondition, <<>>, select.connection)

\* C17: on a Select, Update or Delete that has no WHERE Condition, and(),
\* or() and close() fail and create no Condition, whereas paren() and open()
\* create the Condition and open a parenthesis on it, and where() with a
\* function creates the Condition and runs the function on it.
C17_ConditionOnFirstNeed ==
    (kind \in {"Select", "Update", "Delete"} /\ last.where = Undefined) =>
        /\ last.call \in {"and", "or", "close"} =>
                ~last.ok /\ WhereOf = Undefined
        /\ last.call = "open" =>
                last.ok /\ WhereOf = Condition_open(Fresh).c
        /\ last.call = "paren" =>
                last.ok /\ WhereOf = Condition_paren(Fresh).c
        /\ last.call = "where" =>
                \E cb \in WhereCallbacks :
                    IF isFunc(cb)
                    THEN /\ WhereOf = RunCallback(Fresh, cb.ops).c
                         /\ last.ok = RunCallback(Fresh, cb.ops).ok
                    ELSE ~last.ok /\ WhereOf = Undefined

\* open() created the WHERE Condition of an Update that had none
C17_Witness ==
    /\ kind = "Update"
    /\ last.call = "open"
    /\ last.where = Undefined
    /\ update.condition # Undefined
    /\ update.condition.stack = <<"(">>
    /\ update.condition.opened = 1

\* one valid call for each clause of a Select
ClauseCalls ==
    { Call("from", Str("t"), None),
      Call("distinct", None, None),
      Call("col", List(<<Str("id")>>), None),
      Call("join", Str("j"), Func(<<Col("j.x"), Equal(Num(5))>>)),
      Call("where", Func(<<Col("id"), Equal(Num(1))>>), None),
      Call("groupBy", List(<<Str("n")>>), None),
      Call("having", Func(<<Col("n"), Call("greaterThan", Num(7), None)>>),
           None),
      Call("orderBy", Str("id"), DESC),
      Call("limit", Num(2), None),
      Call("offset", Num(5), None),
      Call("union", Func(<<Call("from", Str("u"), None)>>), None) }

\* the text build() returns after the calls are made on the Select, or
\* "throws" when a call or build() throws
TextAfter(calls_) ==
    IF ~RunSelect(Return(select), calls_).ok THEN "throws"
    ELSE IF ~Select_build(RunSelect(Return(select), calls_).self, FALSE).ok
    THEN "throws"
    ELSE Select_build(RunSelect(Return(select), calls_).self, FALSE).text

\* the keywords of the clauses, in the order the clauses are to appear
Keywords ==
    <<"SELECT ", " FROM ", " JOIN ", " WHERE ", " GROUP BY ", " HAVING ",
      " ORDER BY ", " LIMIT ", " OFFSET ", " UNION">>

\* the positions of the text at which p occurs
Positions(text, p) == {i \in 1..Len(text) : HasAt(text, i, p)}

\* the position the unions start at, past the end when there is none
UnionsAt(text) ==
    IF Positions(text, " UNION") = {} THEN Len(text) + 1
    ELSE CHOOSE i \in Positions(text, " UNION") :
            \A j \in Positions(text, " UNION") : i <= j

\* before the unions, no keyword of a later clause precedes a keyword of an
\* earlier clause
InClauseOrder(text) ==
    \A k \in 1..Len(Keywords), l \in 1..Len(Keywords) :
        k < l =>
            \A i \in Positions(text, Keywords[k]), j \in Positions(text, Keywords[l]) :
                (i <= UnionsAt(text) /\ j <= UnionsAt(text)) => i < j

HasSettled(promise) == promise.state \in {"resolved", "rejected"}

\* the promises of count() that settle in the step: those that had not
\* settled, and the one the step has made already settled
Settling ==
    {i \in 1..Len(pool'.promises) :
        /\ pool'.promises[i].op = "count"
        /\ HasSettled(pool'.promises[i])
        /\ i <= Len(pool.promises) => ~HasSettled(pool.promises[i])}

\* C19: when the promise of a count() settles, resolved or rejected, the
\* column list of the Select is the one it had when count() was called,
\* whatever made it fail: the connection rejecting, a result without a row,
\* or a count statement that cannot be built.
C19_CountRestoresColumns ==
    [][kind = "Select" =>
            \A i \in Settling : select'.columns = pool'.promises[i].before]_vars

\* build() of the statement as it is now returns a text
Buildable ==
    CASE kind = "Select" -> Select_build(select, FALSE).ok
      [] kind = "Insert" -> Insert_build(insert).ok
      [] kind = "Update" -> Update_build(update).ok
      [] kind = "Delete" -> Delete_build(delete).ok
      [] OTHER           -> FALSE

\* C20: the connection is given a query only by an exec(), a count() or a
\* paginate() made on a statement that can be built, or by the callback of
\* paginate() for a statement that can be built; exec() on a statement whose
\* build() fails issues no query; count() never throws, and on a Select
\* without a table it returns a promise that is rejected, issues no query
\* and leaves the column list unchanged.
C20_NoQueryUnlessBuilt ==
    [][(kind \in Statements) =>
            /\ (pool'.queries # pool.queries) =>
                    IF calls' = calls + 1
                    THEN /\ last'.call \in {"exec", "count", "paginate"}
                         /\ Buildable
                    ELSE /\ kind = "Select"
                         /\ Select_build(select', FALSE).ok
            /\ (last'.call = "count" /\ calls' = calls + 1) =>
                    /\ last'.ok
                    /\ Len(pool'.promises) = Len(pool.promises) + 1
                    /\ (~isFullStr(select.table)) =>
                            /\ pool'.promises[Len(pool'.promises)].state
                                  = "rejected"
                            /\ pool'.queries = pool.queries
                            /\ select'.columns = select.columns]_vars

\* count() was called on a Select that has columns and no table
C20_Witness ==
    /\ kind = "Select"
    /\ last.call = "count"
    /\ select.table = Undefined
    /\ select.columns = Array(<<"id">>)
    /\ pool.queries = <<>>
    /\ Len(pool.promises) = 1
    /\ pool.promises[1].state = "rejected"


\* the promises paginate() returned
Paginations ==
    {i \in 1..Len(pool.promises) : pool.promises[i].op = "paginate"}

\* v when v is an integer >= 1, and otherwise d
OrDefault(v, d) == IF v \in {Num(n) : n \in 1..10} THEN v.n ELSE d

\* the page and the items of the i-th promise, as its arguments give them
PageAsked(i)  == OrDefault(pool.promises[i].args[1], 1)
ItemsAsked(i) == OrDefault(pool.promises[i].args[2], 10)

\* the paginate() promises whose read has been issued
Reads == {i \in Paginations : Awaited(i).op = "exec"}

\* the text of the read of the i-th promise
ReadText(i) == pool.queries[Awaited(i).query].text

\* C21: paginate(page, items) takes 1 for a page that is not an integer >= 1
\* and 10 for items that are not an integer >= 1 or are absent; its read
\* has LIMIT items and OFFSET (page - 1) * items; and the object it resolves
\* with has these as page.current and page.items.
C21_PaginateNormalizes ==
    \A i \in Paginations :
        /\ pool.promises[i].page = PageAsked(i)
        /\ pool.promises[i].items = ItemsAsked(i)
        /\ (i \in Reads) =>
                EndsWith(ReadText(i),
                         " LIMIT " \o ToString(ItemsAsked(i)) \o " OFFSET "
                         \o ToString((PageAsked(i) - 1) * ItemsAsked(i))
                         \o ";")
        /\ (pool.promises[i].state = "resolved") =>
                /\ pool.promises[i].value.page.current = PageAsked(i)
                /\ pool.promises[i].value.page.items = ItemsAsked(i)

\* a paginate(1/2, 0) has resolved, and so has a paginate(2, 2)
C21_Witness ==
    /\ \E i \in Paginations :
            /\ pool.promises[i].args = <<Frac(1), Num(0)>>
            /\ pool.promises[i].state = "resolved"
    /\ \E i \in Paginations :
            /\ pool.promises[i].args = <<Num(2), Num(2)>>
            /\ pool.promises[i].state = "resolved"

\* the paginate() promises that resolved, and what they resolved with
Pagings == {i \in Paginations : pool.promises[i].state = "resolved"}

Paging(i) == pool.promises[i].value

\* the count the connection answered the count statement of the i-th promise
\* with: paginate() makes the promise of its count() just before its own
Counted(i) == pool.answers[pool.promises[i - 1].query].value.items[1].n

\* the number of pages of a given size that hold a total of rows
PagesFor(total, size) ==
    CHOOSE k \in 0..total :
        k * size >= total /\ (k > 0 => (k - 1) * size < total)

\* C22: in every paginate() result total.items is the count, total.pages is
\* ceil(total.items / items), page.prev is undefined exactly when the
\* current page is 1 and current - 1 otherwise, and page.next is current + 1
\* exactly when current < total.pages and undefined otherwise.
C22_PaginationArithmetic ==
    \A i \in Pagings :
        /\ Paging(i).total.items = Counted(i)
        /\ Paging(i).total.pages = PagesFor(Counted(i), Paging(i).page.items)
        /\ Paging(i).page.prev =
                IF Paging(i).page.current = 1 THEN Undefined
                ELSE Num(Paging(i).page.current - 1)
        /\ Paging(i).page.next =
                IF Paging(i).page.current < Paging(i).total.pages
                THEN Num(Paging(i).page.current + 1)
                ELSE Undefined

\* one result is a first page with a next page, another is a page beyond
\* the last
C22_Witness ==
    /\ \E i \in Pagings :
            /\ Paging(i).page.current = 1
            /\ Paging(i).page.next = Num(2)
    /\ \E i \in Pagings :
            /\ Paging(i).page.current > Paging(i).total.pages
            /\ Paging(i).page.prev # Undefined

\* the promise of the count() of the i-th promise, and the answers of the
\* connection to its count statement and to its read
CountOf(i) == pool.promises[i - 1]

CountAnswer(i) == pool.answers[CountOf(i).query]

ReadAnswer(i) == pool.answers[Awaited(i).query]

\* C23: paginate() issues the count statement first and the read only after
\* the count has resolved; when the count rejects the read is never issued
\* and paginate() rejects with the same error; when the read rejects,
\* paginate() rejects with the error of the read.
C23_PaginateInSequence ==
    \A i \in Paginations :
        /\ (i \in Reads) =>
                /\ CountOf(i).state = "resolved"
                /\ CountAnswer(i).state = "fulfilled"
                /\ CountOf(i).query < Awaited(i).query
        /\ (CountOf(i).state = "rejected") =>
                /\ i \notin Reads
                /\ pool.promises[i].state \in {"counting", "rejected"}
                /\ (pool.promises[i].state = "rejected") =>
                        /\ pool.promises[i].value = CountOf(i).value
                        /\ (CountOf(i).query # 0
                                /\ CountAnswer(i).state = "rejected") =>
                                pool.promises[i].value = CountAnswer(i).value
        /\ (i \in Reads /\ ReadAnswer(i).state = "rejected") =>
                /\ pool.promises[i].state \in {"reading", "rejected"}
                /\ (pool.promises[i].state = "rejected") =>
                        pool.promises[i].value = ReadAnswer(i).value

\* one paginate() rejected with the error of its count, which the
\* connection rejected, and another with the error of its read
C23_Witness ==
    /\ \E i \in Paginations \ Reads :
            /\ CountOf(i).query # 0
            /\ CountAnswer(i).state = "rejected"
            /\ pool.promises[i].state = "rejected"
    /\ \E i \in Reads :
            /\ ReadAnswer(i).state = "rejected"
            /\ pool.promises[i].state = "rejected"

\* the text build() returns for the statement as it is now
BuildText ==
    CASE kind = "Insert" -> Insert_build(insert).text
      [] kind = "Update" -> Update_build(update).text
      [] kind = "Delete" -> Delete_build(delete).text
      [] OTHER           -> Select_build(select, FALSE).text

\* the promises exec() returned
Execs == {i \in 1..Len(pool.promises) : pool.promises[i].op = "exec"}

\* the i-th promise is as the connection settled the query it was made for
AsConnection(i) ==
    LET answer == pool.answers[pool.promises[i].query]
    IN  /\ pool.promises[i].state =
                CASE answer.state = "fulfilled" -> "resolved"
                  [] answer.state = "rejected"  -> "rejected"
                  [] OTHER                      -> "sent"
        /\ pool.promises[i].value = answer.value

\* C24: an exec() call that builds its statement gives the connection one
\* query, the text of build() with the flattened values, and the promise
\* it returns settles as the connection settles that query: resolved with
\* the same value or rejected with the same error.
C24_ExecDelegates ==
    [][(kind \in Statements) =>
            /\ (last'.call = "exec" /\ calls' = calls + 1 /\ last'.ok) =>
                    /\ pool'.queries =
                            Append(pool.queries,
                                   [text |-> BuildText,
                                    values |-> FlatValues'])
                    /\ Len(pool'.promises) = Len(pool.promises) + 1
                    /\ Len(pool'.promises) \in Execs'
                    /\ pool'.promises[Len(pool'.promises)].query =
                            Len(pool'.queries)
            /\ \A i \in Execs' : AsConnection(i)']_vars

\* the connection rejected the query of an exec() that gave it values
C24_Witness ==
    \E i \in Execs :
        /\ pool.promises[i].state = "rejected"
        /\ pool.queries[pool.promises[i].query].values # <<>>

\* where(cb) and then set(row) on the Update as it is now, and the calls in
\* the other order
WhereThenSet(cb, row) == Update_set(Update_where(update, cb).self, row)

SetThenWhere(cb, row) == Update_where(Update_set(update, row).self, cb)

\* two Updates have the same build() text and the same values
SameUpdate(a, b) ==
    /\ Update_build(a).text = Update_build(b).text
    /\ a.values = b.values

\* C25: on an Update, where() before set() gives the same build() text and
\* the same Value Sink as set() before where() with the same arguments,
\* whenever none of the calls throws.
C25_WhereSetCommute ==
    (kind = "Update" /\ last.clean) =>
        \A cb \in WhereCallbacks, row \in Sets :
            (/\ Update_where(update, cb).ok
             /\ Update_set(update, row).ok
             /\ WhereThenSet(cb, row).ok
             /\ SetThenWhere(cb, row).ok) =>
                SameUpdate(WhereThenSet(cb, row).self,
                           SetThenWhere(cb, row).self)

\* the `(` less the `)` that open(), close() and paren() pushed among the
\* first k tokens
RECURSIVE Depth(_, _)
Depth(stack, k) ==
    IF k = 0 THEN 0
    ELSE Depth(stack, k - 1)
         + (IF stack[k] = "(" THEN 1 ELSE 0) - (IF stack[k] = ")" THEN 1 ELSE 0)

\* C26: every predicate a successful Condition.build() returns has balanced
\* parentheses: no prefix of its tokens holds more `)` of close() and
\* paren() than `(` of open() and paren(), so that build() fails when a
\* close() precedes its open().
C26_ParenthesesBalanced ==
    (kind \in {"Condition", "Comparison"} /\ last.call = "build" /\ last.ok
        /\ last.clean) =>
        \A k \in 0..Len(condition.stack) : Depth(condition.stack, k) >= 0

\* the positions of the comparison fragments among the tokens
Fragments(stack) ==
    {k \in 1..Len(stack) : stack[k] \notin Ops \cup {"(", ")"}}

\* C27: every predicate a successful Condition.build() returns has a
\* logical operator between any two consecutive comparison fragments, so
\* that build() fails after two terminal comparisons with no and() or or()
\* between them.
C27_OperatorBetweenComparisons ==
    (kind \in {"Condition", "Comparison"} /\ last.call = "build" /\ last.ok
        /\ last.clean /\ RawFree(condition.stack)) =>
        \A i, j \in Fragments(condition.stack) :
            (i < j /\ \A k \in i + 1..j - 1 :
                        k \notin Fragments(condition.stack)) =>
                \E k \in i + 1..j - 1 : condition.stack[k] \in Ops

\* C28: a Condition call that raises an error leaves the token stack, the
\* parenthesis depth, the negation flag and the Value Sink of the owner as
\* they were before the call; raw(text, v1, ..., vn) with an invalid vk
\* appends neither the text nor any of v1..vn.
C28_FailedCallChangesNothing ==
    [][(kind \in {"Condition", "Comparison"} /\ ~last'.ok) =>
            /\ condition'.stack = condition.stack
            /\ condition'.opened = condition.opened
            /\ condition'.negate = condition.negate
            /\ select'.values = select.values]_vars

\* C29: an Insert row() or rows() call that raises an error leaves the
\* column list and the row-vectors as they were: a first row() rejected for
\* an invalid value does not fix the column list, and a rows() rejected at
\* one of its rows appends none of the rows before it.
C29_FailedRowChangesNothing ==
    [][(kind = "Insert" /\ last'.call \in {"row", "rows"} /\ ~last'.ok) =>
            /\ insert'.columns = insert.columns
            /\ insert'.values = insert.values]_vars

\* C30: a where() or having() call that raises an error leaves the builder
\* as it was: a Select, Update or Delete whose build() returned a text
\* before the failed call returns the same text after it.
C30_FailedWhereChangesNothing ==
    [][(/\ kind \in {"Select", "Update", "Delete"}
        /\ last'.call \in {"where", "having"}
        /\ ~last'.ok
        /\ Buildable) =>
            /\ Buildable'
            /\ BuildText' = BuildText]_vars

\* the pairs of count() calls that overlap: the second was made while the
\* promise of the first had not settled
Overlapping(p) ==
    {pair \in (1..Len(p.promises)) \X (1..Len(p.promises)) :
        pair[1] \in p.promises[pair[2]].during}

\* C31: when two count() calls on a Select overlap, then once both have
\* settled, and no other count() is under way, the column list is the one
\* in place before the first call, in whatever order they settle.
C31_OverlappingCountsRestore ==
    [][(kind = "Select" /\ Settling # {} /\ Unsettled(pool') = {}) =>
            \A pair \in Overlapping(pool') :
                (pair[1] \in Settling \/ pair[2] \in Settling) =>
                    select'.columns = pool'.promises[pair[1]].before]_vars

\* the text of the count statement of the i-th promise, one of paginate()
CountText(i) == pool.queries[CountOf(i).query].text

\* C32: the count statement paginate() issues has no LIMIT and no OFFSET
\* clause, also on the second and later paginate() calls on a Select.
C32_CountWithoutLimit ==
    \A i \in Paginations :
        (CountOf(i).query # 0) =>
            /\ Positions(CountText(i), " LIMIT ") = {}
            /\ Positions(CountText(i), " OFFSET ") = {}

\* two logical operators are adjacent in the token stack
OperatorsAdjacent(stack) ==
    \E i \in 1..Len(stack) - 1 : stack[i] \in Ops /\ stack[i + 1] \in Ops

\* C33: Condition.build() fails whenever two logical operators are adjacent
\* in the token stack, for and() and(), or() or(), and() or() and
\* or() and().
C33_AdjacentOperatorsRefused ==
    (kind \in {"Condition", "Comparison"} /\ last.call = "build"
        /\ OperatorsAdjacent(condition.stack)) => ~last.ok

\* the parenthesis depth of the WHERE condition before the last call: 0
\* when there was no Condition yet
DepthBefore == IF last.where = Undefined THEN 0 ELSE last.where.opened

\* C34: close() on a Select, Update or Delete throws whenever the
\* parenthesis depth of the WHERE condition is 0 at the call, whether or
\* not a Condition exists already.
C34_CloseNeedsOpen ==
    (kind \in {"Select", "Update", "Delete"} /\ last.call = "close"
        /\ DepthBefore = 0) => ~last.ok

\* no column has been specified: col() was never called, or was last called
\* with no column name
NoColumns == ~select.columns.array \/ select.columns.items = <<>>

\* C35: whenever no columns have been specified on a Select, the text
\* build() returns starts with `SELECT * FROM` or `SELECT DISTINCT * FROM`.
C35_DefaultsToAllColumns ==
    (kind = "Select" /\ Built /\ NoColumns) =>
        \/ StartsWith(last.text, "SELECT * FROM")
        \/ StartsWith(last.text, "SELECT DISTINCT * FROM")

\* the comparisons that take operands
OperandCalls ==
    {"inDate", "inTime", "inYear", "inMonth", "inDay", "inHour", "inMinute",
     "inSecond", "equal", "lessThan", "lessThanOrEqual", "greaterThan",
     "greaterThanOrEqual", "between", "in", "like"}

\* the operands that are not Reference Markers, in operand order
NonMarkers(args) == SelectSeq(args, LAMBDA v : v.t # "ref")

\* what stands for an operand in the fragment
Slot(v) == IF v.t = "ref" THEN v.s ELSE "?"

\* the operands as the fragment of the call is to show them
Slots(call, args) ==
    CASE call = "between" ->
            " BETWEEN " \o Slot(args[1]) \o " AND " \o Slot(args[2])
      [] call = "in" ->
            " IN (" \o Join([i \in 1..Len(args) |-> Slot(args[i])], ", ")
            \o ")"
      [] OTHER -> " " \o Slot(args[1])

\* the fragment the step pushed
Pushed == condition'.stack[Len(condition'.stack)]

\* C36: a comparison puts the raw text of an operand made by ref() in its
\* fragment in place of `?` and appends nothing for it to the Value Sink;
\* for every other operand it puts one `?` and appends the operand, in
\* operand order, also for between and in with mixed operands.
C36_MarkersAreNotBound ==
    [][(kind = "Comparison" /\ last'.call \in OperandCalls /\ last'.ok) =>
            /\ Len(condition'.stack) = Len(condition.stack) + 1
            /\ EndsWith(Pushed, Slots(last'.call, last'.args))
            /\ CountChar(Pushed, "?") = Len(NonMarkers(last'.args))
            /\ select'.values = select.values \o NonMarkers(last'.args)]_vars

\* an in with an operand made by ref() between two that are not
C36_Witness ==
    /\ kind = "Comparison"
    /\ last.ok
    /\ last.call = "in"
    /\ last.args = <<Num(1), Ref("b.x"), Num(2)>>
    /\ condition.stack = <<"a IN (?, b.x, ?)">>
    /\ select.values = <<Num(1), Num(2)>>

\* the date and time comparisons with the name of what each extracts and
\* its STRFTIME format
DateParts ==
    [inDate   |-> <<"DATE", "">>,
     inTime   |-> <<"TIME", "%H:%M:%S">>,
     inYear   |-> <<"YEAR", "%Y">>,
     inMonth  |-> <<"MONTH", "%m">>,
     inDay    |-> <<"DAY", "%d">>,
     inHour   |-> <<"HOUR", "%H">>,
     inMinute |-> <<"MINUTE", "%M">>,
     inSecond |-> <<"SECOND", "%S">>]

\* the column c as the comparison is to wrap it for a driver
Wrapped(call, driver, c) ==
    CASE driver = "MySQL" -> DateParts[call][1] \o "(" \o c \o ")"
      [] driver = "PostgreSQL" ->
            IF call = "inDate" THEN c \o "::DATE"
            ELSE IF call = "inTime" THEN "TO_CHAR(" \o c \o ", 'HH24:MI:SS')"
            ELSE "EXTRACT(" \o DateParts[call][1] \o " FROM " \o c \o ")"
      [] OTHER ->
            IF call = "inDate" THEN "DATE(" \o c \o ")"
            ELSE "STRFTIME('" \o DateParts[call][2] \o "', " \o c \o ")"

\* C37: inDate, inTime, inYear, inMonth, inDay, inHour, inMinute and
\* inSecond wrap the Active Column as the driver of the connection asks:
\* MySQL DATE(c), TIME(c), YEAR(c) and so on; PostgreSQL c::DATE,
\* TO_CHAR(c, 'HH24:MI:SS') and EXTRACT(part FROM c); SQLite DATE(c) and
\* STRFTIME('%fmt', c).
C37_DatePartsPerDriver ==
    (kind = "DatePart" /\ last.call \in DOMAIN DateParts /\ last.ok) =>
        \E not \in {"", "NOT "} :
            condition.stack[Len(condition.stack)] =
                not \o Wrapped(last.call, select.connection, condition.column.s)
                \o " = " \o Slot(last.args[1])

\* the column c as wrapped when inDate is DATE(c) on every driver
WrappedDate(call, driver, c) ==
    IF call = "inDate" THEN "DATE(" \o c \o ")" ELSE Wrapped(call, driver, c)

\* C37, amended: inDate wraps the Active Column as DATE(c) on every driver,
\* PostgreSQL included; inTime, inYear, inMonth, inDay, inHour, inMinute
\* and inSecond wrap it as the driver asks: MySQL TIME(c), YEAR(c) and so
\* on; PostgreSQL TO_CHAR(c, 'HH24:MI:SS') and EXTRACT(part FROM c); SQLite
\* STRFTIME('%fmt', c).
C37_DatePartsAsBuilt ==
    (kind = "DatePart" /\ last.call \in DOMAIN DateParts /\ last.ok) =>
        \E not \in {"", "NOT "} :
            condition.stack[Len(condition.stack)] =
                not \o WrappedDate(last.call, select.connection,
                                   condition.column.s)
                \o " = " \o Slot(last.args[1])

\* a negated inTime on a PostgreSQL connection
C37_Witness ==
    /\ kind = "DatePart"
    /\ select.connection = "PostgreSQL"
    /\ last.call = "inTime"
    /\ last.ok
    /\ condition.stack = <<"NOT TO_CHAR(a, 'HH24:MI:SS') = ?">>

\* the date-part comparisons with the range of their operand; a year has
\* no upper end
PartCalls == {"inYear", "inMonth", "inDay", "inHour", "inMinute", "inSecond"}

InRange(call, n) ==
    CASE call = "inYear"  -> n > 0
      [] call = "inMonth" -> n >= 1 /\ n <= 12
      [] call = "inDay"   -> n >= 1 /\ n <= 31
      [] call = "inHour"  -> n >= 0 /\ n <= 23
      [] OTHER            -> n >= 0 /\ n <= 59

\* the call is made with the operand v on the Condition as it is now, and
\* returns
Accepts(call, v) == Condition_call(Here, Call(call, v, None)).ok

Made(i) == pool.promises[i].op \in {"count", "paginate"}

Done(i) == pool.promises[i].state \in {"resolved", "rejected"}

\* a promise of count() or of paginate() is neither resolved nor rejected
Pending == \E i \in 1..Len(pool.promises) : Made(i) /\ ~Done(i)

\* C39: when the connection settles every query it is handed, every promise
\* of count() and of paginate() is resolved or rejected in the end and none
\* stays pending, the count that is answered with no row and the statement
\* that build() refuses included: a promise that has settled stays settled,
\* and whenever one is pending, a time comes when none is.
C39_PromisesSettle ==
    /\ [][\A i \in 1..Len(pool.promises) :
            (Made(i) /\ Done(i)) =>
                pool'.promises[i].state = pool.promises[i].state]_vars
    /\ Pending ~> ~Pending

\* count() was refused its statement and rejected at once, and a paginate()
\* whose count was answered with no row has rejected with the TypeError
C39_Witness ==
    /\ \E i \in 1..Len(pool.promises) :
            /\ pool.promises[i].op = "count"
            /\ pool.promises[i].query = 0
            /\ pool.promises[i].state = "rejected"
    /\ \E i \in 1..Len(pool.promises) :
            /\ pool.promises[i].op = "paginate"
            /\ pool.promises[i].state = "rejected"
            /\ pool.promises[i].value = Failure("TypeError")
            /\ pool.answers[Awaited(i).query].state = "fulfilled"

=============================================================================
